---------------------------- MODULE Spec2Model ----------------------------
(***************************************************************************)
(* Model of the constrained waypoint generation and avoidance pipeline of  *)
(* maritime_app/routing/route_optimizer.py (EnhancedSailingCalculator).    *)
(*                                                                         *)
(* Coordinates.  A position is <<x, y>> = (longitude, latitude), as in the *)
(* code's Point(wp.longitude, wp.latitude).  The unit is 1/60000 degree    *)
(* and the origin is (lon -122.6, lat 37.7), the south-west corner of the  *)
(* San Francisco box of _is_on_land.  In this unit every length constant   *)
(* of the code is an integer: MIN_OFFING_NM/60 deg = 3000, 1e-3 deg = 60,  *)
(* 1e-4 deg = 6, 0.1/60 deg = 100, 0.05 deg = 3000.                        *)
(* The chart window is a few nautical miles wide, so great-circle distance *)
(* bearing and interpolation are modelled by their planar limits.          *)
(*                                                                         *)
(* Depths are in units of 1e-5 m, speeds in tenths of a knot.              *)
(***************************************************************************)
EXTENDS Integers, Sequences, FiniteSets, TLC

\* ------------------------------------------------------------------ bounds
MaxCount == 2

MaxFaults == 1

\* ------------------------------------------------- settings and constants
\* MIN_OFFING_NM, in tenths of a nautical mile
MinOffingNm10 == 30

\* self.min_offing_deg = MIN_OFFING_NM / 60.0 (one tenth of a nautical mile of
\* latitude is 100 units)
MinOffingDeg == MinOffingNm10 * 100

LandMargin == 60

PolyMargin == 6

StepSizeDeg == 100

StepDiagDeg == 71

OffshoreDistance == 3000

DefaultDraft == 1050000

UkcDefault == 60000

MaxSpeed10 == 200

MinSpeed10 == 50

NoDataDepth == 999900000

\* SAFETY_DEPTH_MARGIN_M, in 1e-5 m
SafetyDepthMargin == 200000

MaxAttempts == 10

OpposedDeg == 120

\* Optional values: None is the empty sequence, a present value v is <<v>>.
None == << >>

Some(v) == << v >>

\* ---------------------------------------------------------- plane geometry
Abs(n) == IF n < 0 THEN -n ELSE n

Min2(a, b) == IF a <= b THEN a ELSE b

Max2(a, b) == IF a >= b THEN a ELSE b

Clamp(v, lo, hi) == IF v < lo THEN lo ELSE IF v > hi THEN hi ELSE v

RECURSIVE ISqrt(_)
ISqrt(n) ==
    IF n < 2 THEN n
    ELSE LET r == 2 * ISqrt(n \div 4)
         IN  IF (r + 1) * (r + 1) <= n THEN r + 1 ELSE r

Dist2(p, q) == (p[1] - q[1]) * (p[1] - q[1]) + (p[2] - q[2]) * (p[2] - q[2])

\* math.hypot(vx, vy)
Hypot(vx, vy) == ISqrt(vx * vx + vy * vy)

\* A polygon of a chart file is an axis-aligned rectangle [x1, x2, y1, y2].
Rect(x1, x2, y1, y2) == [x1 |-> x1, x2 |-> x2, y1 |-> y1, y2 |-> y2]

\* shapely: nearest point of the filled polygon to p (p itself when inside)
NearestOnRect(rc, p) == << Clamp(p[1], rc.x1, rc.x2), Clamp(p[2], rc.y1, rc.y2) >>

\* shapely: polygon.contains(p) / p.within(polygon): interior only
RectContains(rc, p) == rc.x1 < p[1] /\ p[1] < rc.x2 /\ rc.y1 < p[2] /\ p[2] < rc.y2

\* shapely: polygon.intersects(p): interior or boundary
RectIntersects(rc, p) == rc.x1 <= p[1] /\ p[1] <= rc.x2 /\ rc.y1 <= p[2] /\ p[2] <= rc.y2

\* bounding boxes of two rectangles meet (STRtree.query without predicate)
BoxesMeet(a, b) == a.x1 <= b.x2 /\ b.x1 <= a.x2 /\ a.y1 <= b.y2 /\ b.y1 <= a.y2

\* bounding box of p.buffer(r)
BufferBox(p, r) == Rect(p[1] - r, p[1] + r, p[2] - r, p[2] + r)

PointBox(p) == Rect(p[1], p[1], p[2], p[2])

\* A land geometry is a rectangle buffered by r >= 0: [rect, r].
\* geometry.buffer(d)
Buffer(g, d) == [rect |-> g.rect, r |-> g.r + d]

\* p.within(g)
Within(p, g) ==
    IF g.r = 0 THEN RectContains(g.rect, p)
    ELSE Dist2(p, NearestOnRect(g.rect, p)) < g.r * g.r

\* nearest_points(g, p)[0]: p itself when p lies in g, else the boundary
\* point of g on the ray from the rectangle towards p
NearestOnGeom(g, p) ==
    LET n0 == NearestOnRect(g.rect, p)
        d0 == ISqrt(Dist2(p, n0))
    IN  IF Dist2(p, n0) <= g.r * g.r THEN p
        ELSE << n0[1] + ((p[1] - n0[1]) * g.r) \div d0,
                n0[2] + ((p[2] - n0[2]) * g.r) \div d0 >>


\* ------------------------------------------------------------- chart files
\* The files of the charts directory.  "mdata" is maritime_data.json, which
\* names the files of the other layers; "cache" is the cached land buffer.
SubLayers == {"tss", "buoys", "pilotage", "restricted", "depth", "hazards"}

Files == {"coast", "cache", "mdata"} \cup SubLayers

Status == {"ok", "missing", "bad"}

\* Content of the coastline file: one land polygon east of the approaches.
CoastGeom == [rect |-> Rect(14000, 22000, 0, 16000), r |-> 0]

\* Content of the layer files (geometry + properties of each feature).
TssFeatures ==
    << [geometry |-> [type |-> "LineString", a |-> << -2000, -8000 >>, b |-> << 20000, -8000 >>],
        properties |-> [name |-> "Eastbound lane", direction |-> "outbound", corridor_width_nm |-> 10]],
       [geometry |-> [type |-> "LineString", a |-> << 20000, -10000 >>, b |-> << -2000, -10000 >>],
        properties |-> [name |-> "Westbound lane", direction |-> "inbound", corridor_width_nm |-> 10]] >>

BuoyFeatures ==
    << [geometry |-> << 7000, 3000 >>, properties |-> [name |-> "Sea Buoy SF"]],
       [geometry |-> << 7000, 9000 >>, properties |-> [name |-> "Sea Buoy N"]] >>

PilotageFeatures ==
    << [geometry |-> [type |-> "Polygon", rect |-> Rect(12000, 16000, 1000, 5000)],
        properties |-> [name |-> "SF Bar pilotage"]] >>

RestrictedFeatures ==
    << [geometry |-> Rect(1500, 2500, 5500, 6500), properties |-> [name |-> "R0"]],
       [geometry |-> Rect(4500, 5500, -1500, 0), properties |-> [name |-> "R1"]] >>

\* DRVAL1 and DRVAL2 (the shoal and the deep end of the cell's depth range)
\* are optional properties: << >> when the feature has none.
DepthFeatures ==
    << [geometry |-> Rect(5600, 12000, 0, 6000),
        properties |-> [DRVAL1 |-> Some(200000), DRVAL2 |-> Some(500000)]],
       [geometry |-> Rect(-1000, 5600, 0, 6000),
        properties |-> [DRVAL1 |-> Some(1000000), DRVAL2 |-> Some(2000000)]],
       [geometry |-> Rect(0, 6000, 7000, 11000),
        properties |-> [DRVAL1 |-> Some(300000), DRVAL2 |-> None]] >>

HazardFeatures ==
    << [geometry |-> << 2000, -4000 >>, properties |-> [name |-> "Wreck"]],
       [geometry |-> << 7000, -8700 >>, properties |-> [name |-> "Obstruction"]] >>

FileContent(f) ==
    CASE f = "tss" -> TssFeatures
      [] f = "buoys" -> BuoyFeatures
      [] f = "pilotage" -> PilotageFeatures
      [] f = "restricted" -> RestrictedFeatures
      [] f = "depth" -> DepthFeatures
      [] f = "hazards" -> HazardFeatures

\* ------------------------------------------------------------------- state
VARIABLES
    shapely,        \* SHAPELY_AVAILABLE
    cfg,            \* settings: tss_enforcement, optimize_inside_pilotage
    fs,             \* status of each chart file
    cache_geo,      \* content of the cached land buffer file, when present
    store,          \* the calculator's loaded layers and spatial indices
    pc,             \* position of the construction / routing request
    req,            \* the request: start, end, num_waypoints
    seed,           \* waypoints built by generate_waypoints before its passes
    wps,            \* the current waypoint list
    passLog,        \* passes run so far: <<name, input list, output list>>
    route,          \* Route returned by optimize_route, when there is one
    call,           \* the last direct call of a function: its name and arguments
    result,         \* what that call returned or raised
    jobs            \* the routing requests that share one calculator

vars == << shapely, cfg, fs, cache_geo, store, pc, req, seed, wps, passLog, route,
          call, result, jobs >>

\* ----------------------------------------------------------- chart loading
EmptyStore ==
    [land_union |-> None, pilotage_zones |-> << >>, sea_buoys |-> << >>,
     tss_corridors |-> << >>, restricted_areas |-> << >>, depth_areas |-> << >>,
     wrecks_obstructions |-> << >>,
     restricted_tree |-> None, depth_tree |-> None, hazards_tree |-> None]

\* a loader that hands back the features of a file json.load cannot parse
LoadGeojsonLenient(files, f) ==
    IF files[f] # "missing" THEN FileContent(f) ELSE << >>

\* _load_geojson_with_properties: a missing file and a file json.load cannot
\* parse both give the empty list; the exception does not leave the helper.
LoadGeojsonWithProperties(files, f) ==
    IF files[f] = "ok" THEN FileContent(f) ELSE << >>

RECURSIVE SelectLineStrings(_)
SelectLineStrings(feats) ==
    IF feats = << >> THEN << >>
    ELSE LET c == Head(feats)
         IN  (IF c.geometry.type = "LineString"
              THEN << [name |-> c.properties.name,
                       line |-> [a |-> c.geometry.a, b |-> c.geometry.b],
                       direction |-> c.properties.direction,
                       corridor_width_nm |-> c.properties.corridor_width_nm] >>
              ELSE << >>) \o SelectLineStrings(Tail(feats))

RECURSIVE SelectPolygons(_)
SelectPolygons(feats) ==
    IF feats = << >> THEN << >>
    ELSE (IF Head(feats).geometry.type = "Polygon"
          THEN << Head(feats).geometry.rect >> ELSE << >>)
         \o SelectPolygons(Tail(feats))

\* STRtree([f["geometry"] for f in features]), built only for a non-empty list
BuildTree(features) ==
    IF features = << >> THEN None
    ELSE Some([i \in 1..Len(features) |-> features[i].geometry])

\* The land step of _load_charts.  Result: [raised, land, files, cache].
LoadLand(files, cache, min_offing_deg) ==
    IF files["coast"] = "missing"
    THEN [raised |-> FALSE, land |-> None, files |-> files, cache |-> cache]
    ELSE IF files["cache"] # "missing"
    THEN IF files["cache"] = "bad"
         THEN [raised |-> TRUE, land |-> None, files |-> files, cache |-> cache]
         ELSE [raised |-> FALSE, land |-> cache, files |-> files, cache |-> cache]
    ELSE IF files["coast"] = "bad"
    THEN [raised |-> TRUE, land |-> None, files |-> files, cache |-> cache]
    ELSE LET buffered == Buffer(CoastGeom, min_offing_deg)
         IN  [raised |-> FALSE, land |-> Some(buffered),
              files |-> [files EXCEPT !["cache"] = "ok"], cache |-> Some(buffered)]

\* The maritime_data.json step of _load_charts, then the spatial indices.
\* An exception of an earlier step skips every later statement of the try.
LoadCharts(files, cache, min_offing_deg) ==
    LET l == LoadLand(files, cache, min_offing_deg)
        s0 == [EmptyStore EXCEPT !.land_union = l.land]
        mdataRaised == files["mdata"] = "bad"
        s1 == IF files["mdata"] # "ok" THEN s0
              ELSE [s0 EXCEPT
                      !.tss_corridors = SelectLineStrings(LoadGeojsonWithProperties(files, "tss")),
                      !.sea_buoys = LoadGeojsonWithProperties(files, "buoys"),
                      !.pilotage_zones = SelectPolygons(LoadGeojsonWithProperties(files, "pilotage")),
                      !.restricted_areas = LoadGeojsonWithProperties(files, "restricted"),
                      !.depth_areas = LoadGeojsonWithProperties(files, "depth"),
                      !.wrecks_obstructions = LoadGeojsonWithProperties(files, "hazards")]
        s2 == [s1 EXCEPT
                 !.restricted_tree = BuildTree(s1.restricted_areas),
                 !.depth_tree = BuildTree(s1.depth_areas),
                 !.hazards_tree = BuildTree(s1.wrecks_obstructions)]
    IN  IF l.raised THEN [store |-> s0, files |-> l.files, cache |-> l.cache]
        ELSE IF mdataRaised THEN [store |-> s0, files |-> l.files, cache |-> l.cache]
        ELSE [store |-> s2, files |-> l.files, cache |-> l.cache]

\* --------------------------------------------------------------- waypoints
\* core/models.py Waypoint: the optional fields default to None.
Waypoint(lat, lon, name) ==
    [latitude |-> lat, longitude |-> lon, name |-> name,
     estimated_time |-> None, actual_time |-> None, speed_knots |-> None,
     course_deg |-> None, distance_to_next_nm |-> None]

\* Point(wp.longitude, wp.latitude)
PointOf(wp) == << wp.longitude, wp.latitude >>

\* f"WP{i}"
WPName(i) == << "WP1", "WP2", "WP3", "WP4", "WP5", "WP6" >>[i]

\* f"{name}{suffix}": a name is the sequence of its parts
Suffixed(name, suffix) == Append(name, suffix)

\* ----------------------------------------------------------------- geodesy
\* calculate_great_circle_distance, planar limit, rounded down to the unit
GreatCircleDistance(p, q) == ISqrt(Dist2(p, q))

\* math.atan of m/M for 0 <= m <= M, M > 0, in whole degrees (0..45):
\* atan(x) ~ x * (45 + 15.642 * (1 - x)) degrees, within a quarter degree
AtanDeg(m, M) ==
    LET r == (m * 1000) \div M
        md == (r * (45000 + (15642 * (1000 - r)) \div 1000)) \div 1000
    IN  (md + 500) \div 1000

\* calculate_bearing: atan2(east, north) in degrees, normalised to [0, 360)
CalculateBearing(p, q) ==
    LET dx == q[1] - p[1]
        dy == q[2] - p[2]
        ax == Abs(dx)
        ay == Abs(dy)
        alpha == IF ax = 0 /\ ay = 0 THEN 0
                 ELSE IF ay >= ax THEN AtanDeg(ax, ay)
                 ELSE 90 - AtanDeg(ay, ax)
        deg == IF dx >= 0 /\ dy >= 0 THEN alpha
               ELSE IF dx >= 0 THEN 180 - alpha
               ELSE IF dy < 0 THEN 180 + alpha
               ELSE 360 - alpha
    IN  (deg + 360) % 360

\* an interpolation at fraction num/(den - 1): the fractions i/count
InterpolateOverCount(p1, p2, num, den) ==
    IF p1 = p2 THEN [raised |-> TRUE, pos |-> p1]
    ELSE [raised |-> FALSE,
          pos |-> << p1[1] + ((p2[1] - p1[1]) * num) \div (den - 1),
                     p1[2] + ((p2[2] - p1[2]) * num) \div (den - 1) >>]

\* an interpolation that answers the start position for a zero-length arc
InterpolateReturningStart(p1, p2, num, den) ==
    [raised |-> FALSE,
     pos |-> << p1[1] + ((p2[1] - p1[1]) * num) \div den,
                p1[2] + ((p2[2] - p1[2]) * num) \div den >>]

\* _interpolate_great_circle at fraction num/den.  sin(angular_distance) is
\* 0.0 when the two positions are equal, and the float division raises
\* ZeroDivisionError; otherwise the planar limit of the slerp.
InterpolateGreatCircle(p1, p2, num, den) ==
    IF p1 = p2 THEN [raised |-> TRUE, pos |-> p1]
    ELSE [raised |-> FALSE,
          pos |-> << p1[1] + ((p2[1] - p1[1]) * num) \div den,
                     p1[2] + ((p2[2] - p1[2]) * num) \div den >>]

\* ------------------------------------------------------- pilotage snapping
\* b.get(key): None when the dict has no such key
DictGet(b, key) == IF key \in DOMAIN b THEN Some(b[key]) ELSE None

\* the loop of _snap_to_sea_buoy_if_in_pilotage; best = <<lat, lon, d>>, with
\* d = None standing for float("inf")
RECURSIVE NearestBuoy(_, _, _)
NearestBuoy(buoys, p, best) ==
    IF buoys = << >> THEN best
    ELSE LET b == Head(buoys)
             blat == DictGet(b, "latitude")
             blon == DictGet(b, "longitude")
         IN  IF blat = None \/ blon = None
             THEN NearestBuoy(Tail(buoys), p, best)
             ELSE LET d == GreatCircleDistance(p, << blon[1], blat[1] >>)
                  IN  IF best[3] = None \/ d < best[3][1]
                      THEN NearestBuoy(Tail(buoys), p, << blat[1], blon[1], Some(d) >>)
                      ELSE NearestBuoy(Tail(buoys), p, best)

SnapToSeaBuoyIfInPilotage(st, shp, p) ==
    IF ~shp \/ st.pilotage_zones = << >> \/ st.sea_buoys = << >> THEN p
    ELSE IF ~ \E i \in 1..Len(st.pilotage_zones) : RectContains(st.pilotage_zones[i], p)
    THEN p
    ELSE LET best == NearestBuoy(st.sea_buoys, p, << p[2], p[1], None >>)
         IN  << best[2], best[1] >>

\* generate_waypoints up to "waypoints.append(... Destination)": the snapped
\* endpoints and the interpolated waypoints.  [raised, s, e, wps]
SeedWaypoints(st, shp, conf, start, end, n) ==
    LET s == IF ~conf.optimize_inside_pilotage
             THEN SnapToSeaBuoyIfInPilotage(st, shp, start) ELSE start
        e == IF ~conf.optimize_inside_pilotage
             THEN SnapToSeaBuoyIfInPilotage(st, shp, end) ELSE end
        mid == [i \in 1..n |->
                  LET ip == InterpolateGreatCircle(s, e, i, n + 1)
                  IN  Waypoint(ip.pos[2], ip.pos[1], << WPName(i) >>)]
    IN  [raised |-> n >= 1 /\ s = e, s |-> s, e |-> e,
         wps |-> << Waypoint(s[2], s[1], << "Departure" >>) >> \o mid
                 \o << Waypoint(e[2], e[1], << "Destination" >>) >>]

\* ---------------------------------------------------------- land avoidance
\* f"{waypoint.name} (Offshore)" if waypoint.name else "Offshore Waypoint"
OffshoreName(name) ==
    IF name = << >> THEN << "Offshore Waypoint" >> ELSE Suffixed(name, " (Offshore)")

\* _point_in_land_buffer: the loaded land union, buffered again by the offing
PointInLandBuffer(st, p) == Within(p, Buffer(st.land_union[1], MinOffingDeg))

\* v / norm * length, with norm = math.hypot(vx, vy) or 1e-6: a zero vector
\* stays zero (0 / 1e-6 * length = 0)
Push(v, norm, length) == IF norm = 0 THEN 0 ELSE (v * length) \div norm

MoveOffshoreGeo(st, wp) ==
    LET p == PointOf(wp)
        nearest_on_land == NearestOnGeom(st.land_union[1], p)
        vx == p[1] - nearest_on_land[1]
        vy == p[2] - nearest_on_land[2]
        norm == Hypot(vx, vy)
        needed == MinOffingDeg + LandMargin
        new_x == nearest_on_land[1] + Push(vx, norm, needed)
        new_y == nearest_on_land[2] + Push(vy, norm, needed)
    IN  [Waypoint(new_y, new_x, OffshoreName(wp.name)) EXCEPT
            !.distance_to_next_nm = wp.distance_to_next_nm,
            !.estimated_time = wp.estimated_time]

\* _is_on_land: the hard-coded Californian boxes, in model coordinates
\* (San Francisco 37.7..37.9 N, 122.6..122.3 W is 0..12000 x 0..18000)
IsOnLand(lat, lon) ==
    \/ /\ 0 <= lat /\ lat <= 12000 /\ 0 <= lon /\ lon <= 18000
       /\ (lat > 6000 \/ lon > 12000)
    \/ /\ -246000 <= lat /\ lat <= -222000 /\ 240000 <= lon /\ lon <= 276000
       /\ (lat > -234000 \/ lon > 258000)
    \/ /\ -204000 <= lat /\ lat <= -192000 /\ 168000 <= lon /\ lon <= 180000
       /\ (lat > -198000 \/ lon > 174000)

MoveOffshore(wp) ==
    LET lat == wp.latitude
        lon == wp.longitude
        inSF == 0 <= lat /\ lat <= 12000 /\ 0 <= lon /\ lon <= 18000
        inLA == -246000 <= lat /\ lat <= -222000 /\ 240000 <= lon /\ lon <= 276000
        new_lat == IF inSF THEN lat ELSE IF inLA THEN lat - OffshoreDistance ELSE lat
        new_lon == IF inSF THEN lon - OffshoreDistance ELSE IF inLA THEN lon
                   ELSE lon - OffshoreDistance
    IN  [Waypoint(new_lat, new_lon, OffshoreName(wp.name)) EXCEPT
            !.distance_to_next_nm = wp.distance_to_next_nm,
            !.estimated_time = wp.estimated_time]

AvoidLandWaypoints(st, shp, waypoints) ==
    IF ~shp \/ st.land_union = None
    THEN [i \in 1..Len(waypoints) |->
            IF IsOnLand(waypoints[i].latitude, waypoints[i].longitude)
            THEN MoveOffshore(waypoints[i]) ELSE waypoints[i]]
    ELSE [i \in 1..Len(waypoints) |->
            IF PointInLandBuffer(st, PointOf(waypoints[i]))
            THEN MoveOffshoreGeo(st, waypoints[i]) ELSE waypoints[i]]

\* ------------------------------------------------- spatial index queries
\* STRtree.query(geometry): the indices of the tree geometries whose bounding
\* box meets the bounding box of the argument, as an array in index order.
\* Positions are 1-based here; Python's index 0 is position 1.
RECURSIVE QueryFrom(_, _, _)
QueryFrom(tree, box, i) ==
    IF i > Len(tree) THEN << >>
    ELSE (IF BoxesMeet(tree[i], box) THEN << i >> ELSE << >>) \o QueryFrom(tree, box, i + 1)

QueryBoxes(tree, box) == QueryFrom(tree, box, 1)

PointTree(tree) == [i \in 1..Len(tree) |-> PointBox(tree[i])]

\* "if not indices:" on the integer array that query returns: an empty array
\* is false, an array of one index is false exactly when that index is 0, and
\* an array of two or more indices raises ValueError (ambiguous truth value).
ArrayTruth(indices) ==
    IF Len(indices) = 0 THEN "false"
    ELSE IF Len(indices) = 1 THEN (IF indices[1] = 1 THEN "false" ELSE "true")
    ELSE "raises"

\* ---------------------------------------------------- restricted avoidance
IsInRestrictedArea(st, shp, p) ==
    IF ~shp \/ st.restricted_tree = None THEN FALSE
    ELSE LET cand == QueryBoxes(st.restricted_tree[1], PointBox(p))
         IN  \E k \in 1..Len(cand) : RectContains(st.restricted_areas[cand[k]].geometry, p)

\* the candidate loop of _move_away_from_polygon: [min_dist, closest], with
\* min_dist = None for float('inf') and closest = None until one is found
RECURSIVE ClosestOnFeatures(_, _, _, _)
ClosestOnFeatures(cand, features, p, acc) ==
    IF cand = << >> THEN acc
    ELSE LET geom == features[Head(cand)].geometry
             near == NearestOnRect(geom, p)
             dist == ISqrt(Dist2(p, near))
         IN  IF RectIntersects(geom, p)
             THEN [min_dist |-> acc.min_dist, closest |-> Some(near)]
             ELSE IF acc.min_dist = None \/ dist < acc.min_dist[1]
             THEN ClosestOnFeatures(Tail(cand), features, p,
                                    [min_dist |-> Some(dist), closest |-> Some(near)])
             ELSE ClosestOnFeatures(Tail(cand), features, p, acc)

\* _move_away_from_polygon.  [raised, pos]
MoveAwayFromPolygon(p, tree, features, buffer_deg) ==
    LET nearest_geoms == QueryBoxes(tree, BufferBox(p, buffer_deg))
        truth == ArrayTruth(nearest_geoms)
        found == ClosestOnFeatures(nearest_geoms, features, p,
                                   [min_dist |-> None, closest |-> None])
    IN  IF truth = "raises" THEN [raised |-> TRUE, pos |-> p]
        ELSE IF truth = "false" THEN [raised |-> FALSE, pos |-> p]
        ELSE IF found.closest = None THEN [raised |-> FALSE, pos |-> p]
        ELSE LET c == found.closest[1]
                 vx == p[1] - c[1]
                 vy == p[2] - c[2]
                 norm == Hypot(vx, vy)
                 push_distance == buffer_deg + PolyMargin
             IN  [raised |-> FALSE,
                  pos |-> << c[1] + Push(vx, norm, push_distance),
                             c[2] + Push(vy, norm, push_distance) >>]

\* A pass result is [raised, wps]: raised when an exception left the pass.
AvoidRestrictedAreasWaypoints(st, shp, waypoints) ==
    IF ~shp \/ st.restricted_tree = None THEN [raised |-> FALSE, wps |-> waypoints]
    ELSE LET moved == [i \in 1..Len(waypoints) |->
                         MoveAwayFromPolygon(PointOf(waypoints[i]), st.restricted_tree[1],
                                             st.restricted_areas, MinOffingDeg)]
             hit(i) == IsInRestrictedArea(st, shp, PointOf(waypoints[i]))
         IN  [raised |-> \E i \in 1..Len(waypoints) : hit(i) /\ moved[i].raised,
              wps |-> [i \in 1..Len(waypoints) |->
                         IF hit(i)
                         THEN Waypoint(moved[i].pos[2], moved[i].pos[1],
                                       Suffixed(waypoints[i].name, " (Avoid Restricted)"))
                         ELSE waypoints[i]]]

\* ------------------------------------------------- under-keel clearance
\* VesselData: vessel_type and draft are optional
VesselData(vessel_type, draft) == [vessel_type |-> vessel_type, draft |-> draft]

\* the placeholder vessel and constraints of generate_waypoints
DefaultVesselForDepth == Some(VesselData(Some(0), Some(DefaultDraft)))

ConstraintsForDepth ==
    [max_speed_knots |-> MaxSpeed10, min_speed_knots |-> MinSpeed10, ukc_m |-> UkcDefault]

\* coefficient of _estimate_squat_m, in tenths
SquatCoeff10(vessel) ==
    LET vt == IF vessel = None THEN 0
              ELSE IF vessel[1].vessel_type = None THEN 0
              ELSE vessel[1].vessel_type[1]
    IN  IF vt \in {62, 64} THEN 10
        ELSE IF vt \in {60, 40} THEN 6
        ELSE IF vt # 0 THEN 8 ELSE 7

\* _estimate_squat_m: coeff * v^2 / 100 metres, v in knots; with the speed in
\* tenths of a knot and the coefficient in tenths the result in 1e-5 m is exact
EstimateSquat(vessel, speed10) ==
    LET v == Max2(0, speed10)
    IN  SquatCoeff10(vessel) * v * v

\* a required depth that adds the squat to the UKC instead of taking the larger
RequiredDepthSum(vessel, speed10, ukc) ==
    LET draft == IF vessel = None THEN DefaultDraft
                 ELSE IF vessel[1].draft = None \/ vessel[1].draft = Some(0) THEN DefaultDraft
                 ELSE vessel[1].draft[1]
    IN  draft + ukc + EstimateSquat(vessel, speed10)

\* _required_depth_m
RequiredDepth(vessel, speed10, ukc) ==
    LET draft == IF vessel = None THEN DefaultDraft
                 ELSE IF vessel[1].draft = None \/ vessel[1].draft = Some(0) THEN DefaultDraft
                 ELSE vessel[1].draft[1]
        squat == EstimateSquat(vessel, speed10)
        margin == Max2(ukc, squat)
    IN  draft + margin

\* _calculate_safety_depth_m: the shallow contour; the squat is estimated only
\* when a vessel is given (VesselData has no apply_squat attribute, so the
\* getattr default True applies), and is 0.0 without a vessel
CalculateSafetyDepth(vessel, speed10, ukc, tide_height) ==
    LET draft == IF vessel = None THEN DefaultDraft
                 ELSE IF vessel[1].draft = None \/ vessel[1].draft = Some(0) THEN DefaultDraft
                 ELSE vessel[1].draft[1]
        squat == IF vessel # None THEN EstimateSquat(vessel, speed10) ELSE 0
    IN  draft + ukc + squat - tide_height

\* _get_safety_contour_m
GetSafetyContour(shallow_contour) == shallow_contour + SafetyDepthMargin

\* ------------------------------------------------------- depth avoidance
\* the shallowest DRVAL2 of the given features, None when none has a value
RECURSIVE MinDrval2(_, _)
MinDrval2(areas, acc) ==
    IF areas = << >> THEN acc
    ELSE LET v == Head(areas).properties.DRVAL2
         IN  MinDrval2(Tail(areas),
                       IF v = None THEN acc
                       ELSE IF acc = None THEN v
                       ELSE Some(Min2(acc[1], v[1])))

\* _get_min_depth_at_point: None without a depth index or when no covering
\* cell has a DRVAL2; 9999.0 when no cell covers the point
GetMinDepthAtPoint(st, shp, p) ==
    IF ~shp \/ st.depth_tree = None THEN None
    ELSE LET cand == QueryBoxes(st.depth_tree[1], PointBox(p))
             containing == SelectSeq([k \in 1..Len(cand) |-> st.depth_areas[cand[k]]],
                                     LAMBDA a : RectContains(a.geometry, p))
         IN  IF containing = << >> THEN Some(NoDataDepth)
             ELSE MinDrval2(containing, None)

\* _is_over_shallow_depth
IsOverShallowDepth(st, shp, p, vessel, speed10, ukc) ==
    IF ~shp \/ st.depth_tree = None THEN FALSE
    ELSE LET required_depth == RequiredDepth(vessel, speed10, ukc)
             available_depth == GetMinDepthAtPoint(st, shp, p)
         IN  IF available_depth = None THEN FALSE
             ELSE available_depth[1] < required_depth

\* step_size_deg * (cos, sin) of np.arange(0, 360, 45), as (lon, lat) offsets
Directions ==
    << << StepSizeDeg, 0 >>, << StepDiagDeg, StepDiagDeg >>, << 0, StepSizeDeg >>,
       << -StepDiagDeg, StepDiagDeg >>, << -StepSizeDeg, 0 >>,
       << -StepDiagDeg, -StepDiagDeg >>, << 0, -StepSizeDeg >>,
       << StepDiagDeg, -StepDiagDeg >> >>

\* a probe accepted also when it is only as deep as the best depth so far
DeeperOrEqual(st, shp, test_p, vessel, speed10, ukc, best_depth) ==
    /\ ~IsOverShallowDepth(st, shp, test_p, vessel, speed10, ukc)
    /\ GetMinDepthAtPoint(st, shp, test_p) # None
    /\ GetMinDepthAtPoint(st, shp, test_p)[1] >= best_depth

\* the probe of one direction is accepted: not shallow and strictly deeper
Deeper(st, shp, test_p, vessel, speed10, ukc, best_depth) ==
    /\ ~IsOverShallowDepth(st, shp, test_p, vessel, speed10, ukc)
    /\ GetMinDepthAtPoint(st, shp, test_p) # None
    /\ GetMinDepthAtPoint(st, shp, test_p)[1] > best_depth

\* the attempt loop of _move_away_from_shallow, from attempt number k on: the
\* rounds it runs, each with the number of directions it probed, whether one
\* was accepted, and the best position and depth held when the round ends
RECURSIVE ShallowSearch(_, _, _, _, _, _, _, _)
ShallowSearch(st, shp, vessel, speed10, ukc, k, current, best_depth) ==
    IF k >= MaxAttempts THEN << >>
    ELSE LET probe(j) == << current[1] + Directions[j][1], current[2] + Directions[j][2] >>
             ok == {j \in 1..Len(Directions) :
                      Deeper(st, shp, probe(j), vessel, speed10, ukc, best_depth)}
         IN  IF ok = {}
             THEN << [probes |-> Len(Directions), found_deeper |-> FALSE,
                      best |-> current, best_depth |-> best_depth] >>
             ELSE LET j == CHOOSE m \in ok : \A o \in ok : m <= o
                      test_depth == GetMinDepthAtPoint(st, shp, probe(j))[1]
                  IN  << [probes |-> j, found_deeper |-> TRUE,
                          best |-> probe(j), best_depth |-> test_depth] >>
                      \o ShallowSearch(st, shp, vessel, speed10, ukc, k + 1, probe(j),
                                       test_depth)

\* _move_away_from_shallow: the best position of the last round
MoveAwayFromShallow(st, shp, p, vessel, speed10, ukc) ==
    LET best_depth == GetMinDepthAtPoint(st, shp, p)
    IN  IF best_depth = None THEN p
        ELSE LET rounds == ShallowSearch(st, shp, vessel, speed10, ukc, 0, p, best_depth[1])
             IN  IF rounds = << >> THEN p ELSE rounds[Len(rounds)].best

\* wp.speed_knots or (max + min) / 2
SegmentSpeed(wp, constraints) ==
    IF wp.speed_knots = None \/ wp.speed_knots = Some(0)
    THEN (constraints.max_speed_knots + constraints.min_speed_knots) \div 2
    ELSE wp.speed_knots[1]

AvoidShallowDepthsWaypoints(st, shp, waypoints, vessel, constraints) ==
    IF ~shp \/ st.depth_tree = None THEN waypoints
    ELSE [i \in 1..Len(waypoints) |->
            LET wp == waypoints[i]
                p == PointOf(wp)
                segment_speed == SegmentSpeed(wp, constraints)
            IN  IF IsOverShallowDepth(st, shp, p, vessel, segment_speed, constraints.ukc_m)
                THEN LET q == MoveAwayFromShallow(st, shp, p, vessel, segment_speed,
                                                  constraints.ukc_m)
                     IN  Waypoint(q[2], q[1], Suffixed(wp.name, " (Avoid Shallow)"))
                ELSE wp]

\* -------------------------------------------------------- hazard avoidance
\* _is_near_hazard
IsNearHazard(st, shp, p, buffer_deg) ==
    IF ~shp \/ st.hazards_tree = None THEN FALSE
    ELSE LET cand == QueryBoxes(PointTree(st.hazards_tree[1]), BufferBox(p, buffer_deg))
         IN  \E k \in 1..Len(cand) :
                Dist2(p, st.wrecks_obstructions[cand[k]].geometry) < buffer_deg * buffer_deg

\* the candidate loop of _move_away_from_point_hazard: [min_dist, closest]
RECURSIVE ClosestHazard(_, _, _, _)
ClosestHazard(cand, features, p, acc) ==
    IF cand = << >> THEN acc
    ELSE LET hazard_geom == features[Head(cand)].geometry
             dist == ISqrt(Dist2(p, hazard_geom))
         IN  IF acc.min_dist = None \/ dist < acc.min_dist[1]
             THEN ClosestHazard(Tail(cand), features, p,
                                [min_dist |-> Some(dist), closest |-> Some(hazard_geom)])
             ELSE ClosestHazard(Tail(cand), features, p, acc)

\* _move_away_from_point_hazard.  [raised, pos]
MoveAwayFromPointHazard(p, tree, features, buffer_deg) ==
    LET nearest_hazards_indices == QueryBoxes(PointTree(tree), BufferBox(p, buffer_deg))
        truth == ArrayTruth(nearest_hazards_indices)
        found == ClosestHazard(nearest_hazards_indices, features, p,
                               [min_dist |-> None, closest |-> None])
    IN  IF truth = "raises" THEN [raised |-> TRUE, pos |-> p]
        ELSE IF truth = "false" THEN [raised |-> FALSE, pos |-> p]
        ELSE IF found.closest = None THEN [raised |-> FALSE, pos |-> p]
        ELSE LET c == found.closest[1]
                 vx == p[1] - c[1]
                 vy == p[2] - c[2]
                 norm == Hypot(vx, vy)
                 push_distance == buffer_deg + PolyMargin
             IN  [raised |-> FALSE,
                  pos |-> << c[1] + Push(vx, norm, push_distance),
                             c[2] + Push(vy, norm, push_distance) >>]

AvoidPointHazardsWaypoints(st, shp, waypoints) ==
    IF ~shp \/ st.hazards_tree = None THEN [raised |-> FALSE, wps |-> waypoints]
    ELSE LET hazard_buffer_deg == MinOffingDeg
             moved == [i \in 1..Len(waypoints) |->
                         MoveAwayFromPointHazard(PointOf(waypoints[i]), st.hazards_tree[1],
                                                 st.wrecks_obstructions, hazard_buffer_deg)]
             hit(i) == IsNearHazard(st, shp, PointOf(waypoints[i]), hazard_buffer_deg)
         IN  [raised |-> \E i \in 1..Len(waypoints) : hit(i) /\ moved[i].raised,
              wps |-> [i \in 1..Len(waypoints) |->
                         IF hit(i)
                         THEN Waypoint(moved[i].pos[2], moved[i].pos[1],
                                       Suffixed(waypoints[i].name, " (Avoid Hazard)"))
                         ELSE waypoints[i]]]

\* ------------------------------------------------------ TSS preference
\* (b - a) x (c - a)
Cross(a, b, c) == (b[1] - a[1]) * (c[2] - a[2]) - (b[2] - a[2]) * (c[1] - a[1])

Dot(a, b, c) == (b[1] - a[1]) * (c[1] - a[1]) + (b[2] - a[2]) * (c[2] - a[2])

Sign(n) == IF n > 0 THEN 1 ELSE IF n < 0 THEN -1 ELSE 0

\* c lies on the segment a-b, given that a, b, c are collinear
OnSegment(a, b, c) ==
    /\ Min2(a[1], b[1]) <= c[1] /\ c[1] <= Max2(a[1], b[1])
    /\ Min2(a[2], b[2]) <= c[2] /\ c[2] <= Max2(a[2], b[2])

SegmentsIntersect(p, q, a, b) ==
    LET d1 == Sign(Cross(p, q, a))
        d2 == Sign(Cross(p, q, b))
        d3 == Sign(Cross(a, b, p))
        d4 == Sign(Cross(a, b, q))
    IN  \/ (d1 * d2 < 0 /\ d3 * d4 < 0)
        \/ (d1 = 0 /\ OnSegment(p, q, a))
        \/ (d2 = 0 /\ OnSegment(p, q, b))
        \/ (d3 = 0 /\ OnSegment(a, b, p))
        \/ (d4 = 0 /\ OnSegment(a, b, q))

\* the distance from point x to the segment a-b is at most w
PointNearSegment(x, a, b, w) ==
    LET l2 == Dist2(a, b)
        t == Dot(a, b, x)
    IN  IF t <= 0 THEN Dist2(x, a) <= w * w
        ELSE IF t >= l2 THEN Dist2(x, b) <= w * w
        ELSE Abs(Cross(a, b, x)) <= w * ISqrt(l2)

\* seg.distance(line) <= w for the two-point lines p-q and a-b
SegDistanceWithin(p, q, a, b, w) ==
    \/ SegmentsIntersect(p, q, a, b)
    \/ PointNearSegment(p, a, b, w) \/ PointNearSegment(q, a, b, w)
    \/ PointNearSegment(a, p, q, w) \/ PointNearSegment(b, p, q, w)

\* seg.interpolate(0.5, normalized=True)
MidPoint(p, q) == << (p[1] + q[1]) \div 2, (p[2] + q[2]) \div 2 >>

\* line.interpolate(line.project(mid)): the point of the centerline nearest
\* to mid, through the distance along the line
ProjectOnLine(line, mid) ==
    LET len == ISqrt(Dist2(line.a, line.b))
        proj_dist == IF len = 0 THEN 0 ELSE Clamp(Dot(line.a, line.b, mid) \div len, 0, len)
    IN  IF len = 0 THEN line.a
        ELSE << line.a[1] + ((line.b[1] - line.a[1]) * proj_dist) \div len,
                line.a[2] + ((line.b[2] - line.a[2]) * proj_dist) \div len >>

\* _bearing_along_line: bearing from the first to the last point of the line
BearingAlongLine(line) == CalculateBearing(line.a, line.b)

\* a comparison the other way round: opposed when the difference is small
BearingOpposedInverted(b1, b2) ==
    LET diff == Abs(((b1 - b2 + 180) % 360) - 180)
    IN  diff < OpposedDeg

\* _bearing_opposed
BearingOpposed(b1, b2) ==
    LET diff == Abs(((b1 - b2 + 180) % 360) - 180)
    IN  diff > OpposedDeg

\* float(c["corridor_width_nm"]) / 60.0, the width being in tenths of a mile
WidthDeg(c) == c.corridor_width_nm * 100

\* a corridor loop that makes the direction check in every enforcement mode
RECURSIVE ChosenCorridorAlwaysChecking(_, _, _, _, _)
ChosenCorridorAlwaysChecking(corridors, enforcement, a, b, k) ==
    IF k > Len(corridors) THEN 0
    ELSE LET c == corridors[k]
             near == SegDistanceWithin(PointOf(a), PointOf(b), c.line.a, c.line.b, WidthDeg(c))
             skip == BearingOpposed(CalculateBearing(PointOf(a), PointOf(b)),
                                    BearingAlongLine(c.line))
         IN  IF near /\ ~skip THEN k
             ELSE ChosenCorridorAlwaysChecking(corridors, enforcement, a, b, k + 1)

\* a corridor loop that keeps the last corridor that is near and not skipped
RECURSIVE ChosenCorridorLast(_, _, _, _, _)
ChosenCorridorLast(corridors, enforcement, a, b, k) ==
    IF k > Len(corridors) THEN 0
    ELSE LET c == corridors[k]
             near == SegDistanceWithin(PointOf(a), PointOf(b), c.line.a, c.line.b, WidthDeg(c))
             skip == /\ enforcement = "enforce"
                     /\ BearingOpposed(CalculateBearing(PointOf(a), PointOf(b)),
                                       BearingAlongLine(c.line))
             later == ChosenCorridorLast(corridors, enforcement, a, b, k + 1)
         IN  IF later # 0 THEN later ELSE IF near /\ ~skip THEN k ELSE 0

\* the corridor loop of _prefer_tss_corridors for the segment a-b: the index of
\* the first corridor that is near and not skipped, 0 when there is none
RECURSIVE ChosenCorridor(_, _, _, _, _)
ChosenCorridor(corridors, enforcement, a, b, k) ==
    IF k > Len(corridors) THEN 0
    ELSE LET c == corridors[k]
             near == SegDistanceWithin(PointOf(a), PointOf(b), c.line.a, c.line.b, WidthDeg(c))
             skip == /\ enforcement = "enforce"
                     /\ BearingOpposed(CalculateBearing(PointOf(a), PointOf(b)),
                                       BearingAlongLine(c.line))
         IN  IF near /\ ~skip THEN k
             ELSE ChosenCorridor(corridors, enforcement, a, b, k + 1)

\* a loop that appends the projected waypoint in place of b
TssSegmentDropping(corridors, enforcement, a, b) ==
    LET k == ChosenCorridor(corridors, enforcement, a, b, 1)
    IN  IF k = 0 THEN << b >>
        ELSE LET proj_pt == ProjectOnLine(corridors[k].line,
                                          MidPoint(PointOf(a), PointOf(b)))
             IN  << Waypoint(proj_pt[2], proj_pt[1], << "TSS WP" >>) >>

\* the waypoints that the loop appends for the pair (a, b)
TssSegment(corridors, enforcement, a, b) ==
    LET k == ChosenCorridor(corridors, enforcement, a, b, 1)
    IN  IF k = 0 THEN << b >>
        ELSE LET proj_pt == ProjectOnLine(corridors[k].line,
                                          MidPoint(PointOf(a), PointOf(b)))
             IN  << Waypoint(proj_pt[2], proj_pt[1], << "TSS WP" >>), b >>

RECURSIVE TssFrom(_, _, _, _)
TssFrom(corridors, enforcement, waypoints, i) ==
    IF i >= Len(waypoints) THEN << >>
    ELSE TssSegment(corridors, enforcement, waypoints[i], waypoints[i + 1])
         \o TssFrom(corridors, enforcement, waypoints, i + 1)

\* _prefer_tss_corridors.  waypoints[0] of an empty list raises IndexError.
PreferTssCorridors(st, shp, conf, waypoints) ==
    IF ~shp \/ st.tss_corridors = << >> THEN [raised |-> FALSE, wps |-> waypoints]
    ELSE IF waypoints = << >> THEN [raised |-> TRUE, wps |-> waypoints]
    ELSE [raised |-> FALSE,
          wps |-> << waypoints[1] >>
                  \o TssFrom(st.tss_corridors, conf.tss_enforcement, waypoints, 1)]

\* ------------------------------------------------------ route optimisation
RECURSIVE SumSeq(_)
SumSeq(q) == IF q = << >> THEN 0 ELSE Head(q) + SumSeq(Tail(q))

\* the leg loop of optimize_route: the distance of each leg
LegDistances(waypoints) ==
    [i \in 1..(Len(waypoints) - 1) |->
        GreatCircleDistance(PointOf(waypoints[i]), PointOf(waypoints[i + 1]))]

\* optimize_route: writes distance_to_next_nm of every waypoint but the last
\* and returns the Route over the same waypoints
OptimizeRouteOf(waypoints) ==
    LET legs == LegDistances(waypoints)
        updated == [i \in 1..Len(waypoints) |->
                      IF i < Len(waypoints)
                      THEN [waypoints[i] EXCEPT !.distance_to_next_nm = Some(legs[i])]
                      ELSE waypoints[i]]
    IN  [waypoints |-> updated, total_distance_nm |-> SumSeq(legs)]

\* a leg loop that keeps a distance a waypoint already holds
RECURSIVE OptimizeLegsKeepingStale(_, _, _)
OptimizeLegsKeepingStale(heap, refs, i) ==
    IF i >= Len(refs) THEN heap
    ELSE LET distance == GreatCircleDistance(PointOf(heap[refs[i]]), PointOf(heap[refs[i + 1]]))
             kept == IF heap[refs[i]].distance_to_next_nm = None
                     THEN Some(distance) ELSE heap[refs[i]].distance_to_next_nm
         IN  OptimizeLegsKeepingStale(
                 [heap EXCEPT ![refs[i]].distance_to_next_nm = kept], refs, i + 1)

\* the leg loop of optimize_route from leg i on, over a list of references to
\* Waypoint objects: heap maps each object to its fields, and
\* wp1.distance_to_next_nm = distance writes the object waypoints[i] refers to
RECURSIVE OptimizeLegs(_, _, _)
OptimizeLegs(heap, refs, i) ==
    IF i >= Len(refs) THEN heap
    ELSE LET distance == GreatCircleDistance(PointOf(heap[refs[i]]), PointOf(heap[refs[i + 1]]))
         IN  OptimizeLegs(
                 [heap EXCEPT ![refs[i]].distance_to_next_nm = Some(distance)], refs, i + 1)

\* optimize_route on a list of object references: the Route holds the same
\* list, read here after the loop, and the accumulated total_distance
OptimizeRouteObjects(heap, refs) ==
    LET after == OptimizeLegs(heap, refs, 1)
    IN  [waypoints |-> [i \in 1..Len(refs) |-> after[refs[i]]],
         total_distance_nm |->
             SumSeq(LegDistances([i \in 1..Len(refs) |-> heap[refs[i]]]))]

\* ------------------------------------------------------------- requests
Sea == << 1000, 3000 >>

Harbor == << 15000, 3000 >>

BandPt == << 9000, 3000 >>

North == << 3000, 9000 >>

LaneW == << 1000, -8200 >>

LaneE == << 13000, -8200 >>

\* the (start, end) pairs of the routing requests
Voyages ==
    { << Sea, Harbor >>, << Harbor, Sea >>, << Sea, BandPt >>, << North, Sea >>,
      << LaneW, LaneE >>, << LaneE, LaneW >>, << Sea, LaneW >>, << Sea, LaneE >>,
      << Sea, Sea >> }

Settings ==
    { [tss_enforcement |-> "enforce", optimize_inside_pilotage |-> FALSE,
       min_offing_nm10 |-> MinOffingNm10],
      [tss_enforcement |-> "prefer", optimize_inside_pilotage |-> FALSE,
       min_offing_nm10 |-> MinOffingNm10],
      [tss_enforcement |-> "enforce", optimize_inside_pilotage |-> TRUE,
       min_offing_nm10 |-> MinOffingNm10] }

Faults(files) == Cardinality({f \in Files \ {"cache"} : files[f] # "ok"})

NoRequest == [start |-> << 0, 0 >>, end |-> << 0, 0 >>, num_waypoints |-> 0]

\* ------------------------------------------------------------ state machine
Init ==
    /\ shapely \in BOOLEAN
    /\ cfg \in Settings
    /\ fs \in {f \in [Files -> Status] : f["cache"] = "missing" /\ Faults(f) <= MaxFaults}
    /\ (shapely \/ Faults(fs) = 0)
    /\ cache_geo = None
    /\ store = EmptyStore
    /\ pc = "new"
    /\ req = NoRequest
    /\ seed = << >>
    /\ wps = << >>
    /\ passLog = << >>
    /\ route = None
    /\ call = None
    /\ result = None
    /\ jobs = << >>

\* EnhancedSailingCalculator.__init__: min_offing_deg is the configured
\* MIN_OFFING_NM / 60; _load_charts returns at once without shapely
Construct ==
    /\ pc = "new"
    /\ LET l == LoadCharts(fs, cache_geo, cfg.min_offing_nm10 * 100)
       IN  IF shapely
           THEN store' = l.store /\ fs' = l.files /\ cache_geo' = l.cache
           ELSE UNCHANGED << store, fs, cache_geo >>
    /\ pc' = "ready"
    /\ UNCHANGED << shapely, cfg, req, seed, wps, passLog, route,
                 call, result, jobs >>

\* generate_waypoints, first part: snapping and interpolation
Generate ==
    /\ pc = "ready"
    /\ \E v \in Voyages, n \in 0..MaxCount :
         LET g == SeedWaypoints(store, shapely, cfg, v[1], v[2], n)
         IN  /\ req' = [start |-> v[1], end |-> v[2], num_waypoints |-> n]
             /\ IF g.raised
                THEN pc' = "failed" /\ UNCHANGED << seed, wps >>
                ELSE pc' = "seeded" /\ seed' = g.wps /\ wps' = g.wps
    /\ UNCHANGED << shapely, cfg, fs, cache_geo, store, passLog, route,
                 call, result, jobs >>

Logged(name, out) == Append(passLog, [pass |-> name, input |-> wps, output |-> out])

\* generate_waypoints, pass 1
LandPass ==
    /\ pc = "seeded"
    /\ LET out == AvoidLandWaypoints(store, shapely, wps)
       IN  wps' = out /\ passLog' = Logged("land", out)
    /\ pc' = "land"
    /\ UNCHANGED << shapely, cfg, fs, cache_geo, store, req, seed, route,
                 call, result, jobs >>

\* generate_waypoints, pass 2
RestrictedPass ==
    /\ pc = "land"
    /\ LET r == AvoidRestrictedAreasWaypoints(store, shapely, wps)
       IN  IF r.raised
           THEN pc' = "failed" /\ UNCHANGED << wps, passLog >>
           ELSE pc' = "restricted" /\ wps' = r.wps /\ passLog' = Logged("restricted", r.wps)
    /\ UNCHANGED << shapely, cfg, fs, cache_geo, store, req, seed, route,
                 call, result, jobs >>

\* a depth pass that is handed the interpolated list instead of the output of
\* the restricted-area pass
ShallowPassOnSeed ==
    /\ pc = "restricted"
    /\ LET out == AvoidShallowDepthsWaypoints(store, shapely, seed, DefaultVesselForDepth,
                                              ConstraintsForDepth)
       IN  /\ wps' = out
           /\ passLog' = Append(passLog, [pass |-> "shallow", input |-> seed, output |-> out])
    /\ pc' = "shallow"
    /\ UNCHANGED << shapely, cfg, fs, cache_geo, store, req, seed, route,
                 call, result, jobs >>

\* generate_waypoints, pass 3
ShallowPass ==
    /\ pc = "restricted"
    /\ LET out == AvoidShallowDepthsWaypoints(store, shapely, wps, DefaultVesselForDepth,
                                              ConstraintsForDepth)
       IN  wps' = out /\ passLog' = Logged("shallow", out)
    /\ pc' = "shallow"
    /\ UNCHANGED << shapely, cfg, fs, cache_geo, store, req, seed, route,
                 call, result, jobs >>

\* generate_waypoints, pass 4
HazardPass ==
    /\ pc = "shallow"
    /\ LET r == AvoidPointHazardsWaypoints(store, shapely, wps)
       IN  IF r.raised
           THEN pc' = "failed" /\ UNCHANGED << wps, passLog >>
           ELSE pc' = "hazard" /\ wps' = r.wps /\ passLog' = Logged("hazard", r.wps)
    /\ UNCHANGED << shapely, cfg, fs, cache_geo, store, req, seed, route,
                 call, result, jobs >>

\* generate_waypoints, pass 5 and return
TssPass ==
    /\ pc = "hazard"
    /\ LET r == PreferTssCorridors(store, shapely, cfg, wps)
       IN  IF r.raised
           THEN pc' = "failed" /\ UNCHANGED << wps, passLog >>
           ELSE pc' = "generated" /\ wps' = r.wps /\ passLog' = Logged("tss", r.wps)
    /\ UNCHANGED << shapely, cfg, fs, cache_geo, store, req, seed, route,
                 call, result, jobs >>

\* EnhancedSailingCalculator.optimize_route on the generated waypoints
OptimizeRoute ==
    /\ pc = "generated"
    /\ LET r == OptimizeRouteOf(wps)
       IN  route' = Some(r) /\ wps' = r.waypoints
    /\ pc' = "routed"
    /\ UNCHANGED << shapely, cfg, fs, cache_geo, store, req, seed, passLog,
                 call, result, jobs >>

\* maritime_app.optimize_route: avoid_land_waypoints again on the waypoints
\* that generate_waypoints returned
ReapplyLand ==
    /\ pc = "generated"
    /\ LET out == AvoidLandWaypoints(store, shapely, wps)
       IN  wps' = out /\ passLog' = Logged("land", out)
    /\ pc' = "reapplied"
    /\ UNCHANGED << shapely, cfg, fs, cache_geo, store, req, seed, route,
                 call, result, jobs >>

Next ==
    \/ Construct
    \/ Generate
    \/ LandPass
    \/ RestrictedPass
    \/ ShallowPass
    \/ HazardPass
    \/ TssPass
    \/ OptimizeRoute
    \/ ReapplyLand

Spec == Init /\ [][Next]_vars


\* ------------------------------------------------------------------- ETAs
\* timedelta(hours=distance / speed_knots) in seconds: a distance unit is one
\* thousandth of a mile and the speed is in tenths of a knot
TravelSeconds(distance, speed10) == (distance * 36) \div speed10

\* the loop of calculate_eta from leg i on: the times appended to etas
RECURSIVE EtasFrom(_, _, _, _)
EtasFrom(waypoints, i, current_time, speed10) ==
    IF i >= Len(waypoints) THEN << >>
    ELSE LET distance == GreatCircleDistance(PointOf(waypoints[i]), PointOf(waypoints[i + 1]))
             next_time == current_time + TravelSeconds(distance, speed10)
         IN  << next_time >> \o EtasFrom(waypoints, i + 1, next_time, speed10)

\* EnhancedSailingCalculator.calculate_eta: distance / speed_knots raises
\* ZeroDivisionError on the first leg when the speed is 0; there is no other
\* check of the speed
CalculateEta(start_time, waypoints, speed10) ==
    IF Len(waypoints) >= 2 /\ speed10 = 0
    THEN [raised |-> TRUE, error |-> "ZeroDivisionError", value |-> << >>]
    ELSE [raised |-> FALSE, error |-> "",
          value |-> << start_time >> \o EtasFrom(waypoints, 1, start_time, speed10)]

\* MaritimeNavigation.calculate_eta: ValueError for a speed <= 0, otherwise
\* datetime.now(), taken as time 0, plus the travel time
NavCalculateEta(current_pos, target_pos, speed10) ==
    IF speed10 <= 0
    THEN [raised |-> TRUE, error |-> "ValueError", value |-> 0]
    ELSE [raised |-> FALSE, error |-> "",
          value |-> TravelSeconds(GreatCircleDistance(current_pos, target_pos), speed10)]

\* the speed _calculate_route_metrics takes for the objective, in hundredths
\* of a knot; the constraints hold tenths
TransitSpeed100(constraints, objective) ==
    CASE objective = "fuel_efficiency" ->
             10 * constraints.min_speed_knots
               + 7 * (constraints.max_speed_knots - constraints.min_speed_knots)
      [] objective = "time_optimization" -> 10 * constraints.max_speed_knots
      [] objective = "safety_first" -> 8 * constraints.max_speed_knots
      [] OTHER -> 5 * (constraints.min_speed_knots + constraints.max_speed_knots)

\* wp1.distance_to_next_nm or 0
DistanceOrZero(wp) ==
    IF wp.distance_to_next_nm = None THEN 0 ELSE wp.distance_to_next_nm[1]

\* _calculate_route_metrics: the duration in seconds and the fuel in 1e-5
\* tonnes; distance / speed raises ZeroDivisionError on the first leg when the
\* speed is 0, and there is no other check of the speed
CalculateRouteMetrics(waypoints, constraints, objective) ==
    LET speed == TransitSpeed100(constraints, objective)
        legs == 1..(Len(waypoints) - 1)
    IN  IF Len(waypoints) >= 2 /\ speed = 0
        THEN [raised |-> TRUE, error |-> "ZeroDivisionError", duration |-> 0, fuel |-> 0]
        ELSE [raised |-> FALSE, error |-> "",
              duration |-> SumSeq([i \in legs |->
                              (360 * DistanceOrZero(waypoints[i])) \div speed]),
              fuel |-> SumSeq([i \in legs |-> 2 * DistanceOrZero(waypoints[i])])]

\* ------------------------------------------------- maritime_navigation.py
\* Position.__post_init__ on whole degrees: ValueError for a latitude outside
\* [-90, 90], otherwise the longitude is stored as ((lon + 180) % 360) - 180
NewPosition(lat, lon) ==
    IF ~(-90 <= lat /\ lat <= 90)
    THEN [raised |-> TRUE, error |-> "ValueError", lat |-> lat, lon |-> lon]
    ELSE [raised |-> FALSE, error |-> "", lat |-> lat, lon |-> ((lon + 180) % 360) - 180]

\* MaritimeNavigation.great_circle_distance, planar limit, rounded down
NavGreatCircleDistance(pos1, pos2) == ISqrt(Dist2(pos1, pos2))

\* MaritimeNavigation.great_circle_course: atan2(east, north), normalised
NavGreatCircleCourse(pos1, pos2) == CalculateBearing(pos1, pos2)

\* course_made_good: the dict it returns, progress_percent in hundredths of a
\* percent; a total distance of 0 gives progress 0
CourseMadeGood(start_pos, current_pos, target_pos) ==
    LET distance_made_good == NavGreatCircleDistance(start_pos, current_pos)
        total_distance == NavGreatCircleDistance(start_pos, target_pos)
    IN  [raised |-> FALSE,
         course_made_good |-> NavGreatCircleCourse(start_pos, current_pos),
         distance_made_good_nm |-> distance_made_good,
         course_to_target |-> NavGreatCircleCourse(current_pos, target_pos),
         distance_to_target_nm |-> NavGreatCircleDistance(current_pos, target_pos),
         total_distance_nm |-> total_distance,
         progress_percent |-> IF total_distance > 0
                              THEN (distance_made_good * 10000) \div total_distance
                              ELSE 0]

\* cross_track_error, planar limit: to_current_distance * sin(angle_diff) is
\* the offset to the right of the track and to_current_distance *
\* cos(angle_diff) the distance along it; a route of length 0 has course 0.
\* The error returned is abs(error_nm).
CrossTrackError(current_pos, route_start, route_end) ==
    LET route_course == NavGreatCircleCourse(route_start, route_end)
        route_distance == NavGreatCircleDistance(route_start, route_end)
        vx == current_pos[1] - route_start[1]
        vy == current_pos[2] - route_start[2]
        right == IF route_distance = 0 THEN vx
                 ELSE -Sign(Cross(route_start, route_end, current_pos))
                        * (Abs(Cross(route_start, route_end, current_pos)) \div route_distance)
        along == IF route_distance = 0 THEN vy
                 ELSE Sign(Dot(route_start, route_end, current_pos))
                        * (Abs(Dot(route_start, route_end, current_pos)) \div route_distance)
    IN  [error_nm |-> Abs(right),
         bearing_to_route |-> IF right >= 0 THEN (route_course + 90) % 360
                              ELSE (route_course + 270) % 360,
         distance_to_route |-> Abs(right),
         position_on_route |->
             IF along <= 0 THEN route_start
             ELSE IF along >= route_distance THEN route_end
             ELSE << route_start[1] + ((route_end[1] - route_start[1]) * along) \div route_distance,
                     route_start[2] + ((route_end[2] - route_start[2]) * along) \div route_distance >>]

\* ------------------------------------------- requests sharing a calculator
NumRequests == 2

Requests == 1..NumRequests

\* the chart directory of the shared calculator: complete, or without coastline
OkFiles == [f \in Files |-> IF f = "cache" THEN "missing" ELSE "ok"]

SharedVoyages == { << Sea, Harbor >>, << Sea, BandPt >>, << LaneE, LaneW >> }

DefaultSettings == [tss_enforcement |-> "enforce", optimize_inside_pilotage |-> FALSE,
       min_offing_nm10 |-> MinOffingNm10]

\* the speed of the ETA call of a request: 12.5 knots
SharedSpeed10 == (MaxSpeed10 + MinSpeed10) \div 2

IdleJob ==
    [pc |-> "idle", req |-> NoRequest, seed |-> << >>, wps |-> << >>, route |-> None,
     etas |-> << >>, overlap |-> FALSE]

\* some other request is between its generate_waypoints call and its last call
OthersRunning(r) ==
    \E o \in Requests \ {r} : jobs[o].pc \notin {"idle", "done", "failed"}

calcVars == << shapely, cfg, fs, cache_geo, store >>

soloVars == << pc, req, seed, wps, passLog, route, call, result >>

\* one calculator constructed, no request started
InitShared ==
    /\ shapely = TRUE
    /\ cfg = DefaultSettings
    /\ \E f0 \in { OkFiles, [OkFiles EXCEPT !["coast"] = "missing"] } :
          LET l == LoadCharts(f0, None, MinOffingDeg)
          IN  store = l.store /\ fs = l.files /\ cache_geo = l.cache
    /\ pc = "ready"
    /\ req = NoRequest
    /\ seed = << >>
    /\ wps = << >>
    /\ passLog = << >>
    /\ route = None
    /\ call = None
    /\ result = None
    /\ jobs = [r \in Requests |-> IdleJob]

\* request r moves on: the routing functions read the store and write only
\* the request's own waypoint list
JobStep(r, job) ==
    /\ jobs' = [jobs EXCEPT ![r] = job]
    /\ UNCHANGED << calcVars, soloVars >>

\* generate_waypoints of request r, up to the interpolated list
SharedGenerate(r) ==
    /\ jobs[r].pc = "idle"
    /\ \E v \in SharedVoyages :
         LET g == SeedWaypoints(store, shapely, cfg, v[1], v[2], 1)
         IN  JobStep(r, [jobs[r] EXCEPT
                           !.pc = IF g.raised THEN "failed" ELSE "seeded",
                           !.req = [start |-> v[1], end |-> v[2], num_waypoints |-> 1],
                           !.seed = g.wps, !.wps = g.wps,
                           !.overlap = OthersRunning(r)])

\* a land pass that keeps the union it buffered for its test in the store
SharedLandKeepingBuffer(r) ==
    /\ jobs[r].pc = "seeded"
    /\ jobs' = [jobs EXCEPT ![r] = [jobs[r] EXCEPT
                   !.pc = "land",
                   !.wps = AvoidLandWaypoints(store, shapely, jobs[r].wps)]]
    /\ store' = IF store.land_union = None THEN store
                ELSE [store EXCEPT
                        !.land_union = Some(Buffer(store.land_union[1], MinOffingDeg))]
    /\ UNCHANGED << shapely, cfg, fs, cache_geo, soloVars >>

\* the land pass of request r; _point_in_land_buffer buffers the stored union
\* into a new geometry and leaves the stored one as it is
SharedLand(r) ==
    /\ jobs[r].pc = "seeded"
    /\ JobStep(r, [jobs[r] EXCEPT !.pc = "land",
                                  !.wps = AvoidLandWaypoints(store, shapely, jobs[r].wps)])

SharedRestricted(r) ==
    /\ jobs[r].pc = "land"
    /\ LET o == AvoidRestrictedAreasWaypoints(store, shapely, jobs[r].wps)
       IN  JobStep(r, IF o.raised THEN [jobs[r] EXCEPT !.pc = "failed"]
                      ELSE [jobs[r] EXCEPT !.pc = "restricted", !.wps = o.wps])

SharedShallow(r) ==
    /\ jobs[r].pc = "restricted"
    /\ JobStep(r, [jobs[r] EXCEPT
                     !.pc = "shallow",
                     !.wps = AvoidShallowDepthsWaypoints(store, shapely, jobs[r].wps,
                                                         DefaultVesselForDepth,
                                                         ConstraintsForDepth)])

SharedHazard(r) ==
    /\ jobs[r].pc = "shallow"
    /\ LET o == AvoidPointHazardsWaypoints(store, shapely, jobs[r].wps)
       IN  JobStep(r, IF o.raised THEN [jobs[r] EXCEPT !.pc = "failed"]
                      ELSE [jobs[r] EXCEPT !.pc = "hazard", !.wps = o.wps])

SharedTss(r) ==
    /\ jobs[r].pc = "hazard"
    /\ LET o == PreferTssCorridors(store, shapely, cfg, jobs[r].wps)
       IN  JobStep(r, IF o.raised THEN [jobs[r] EXCEPT !.pc = "failed"]
                      ELSE [jobs[r] EXCEPT !.pc = "generated", !.wps = o.wps])

\* optimize_route of request r: writes the distance fields of the request's
\* own waypoints
SharedOptimize(r) ==
    /\ jobs[r].pc = "generated"
    /\ LET o == OptimizeRouteOf(jobs[r].wps)
       IN  JobStep(r, [jobs[r] EXCEPT !.pc = "routed", !.wps = o.waypoints,
                                      !.route = Some(o)])

\* calculate_eta of request r over its route, from time 0
SharedEta(r) ==
    /\ jobs[r].pc = "routed"
    /\ LET o == CalculateEta(0, jobs[r].wps, SharedSpeed10)
       IN  JobStep(r, IF o.raised THEN [jobs[r] EXCEPT !.pc = "failed"]
                      ELSE [jobs[r] EXCEPT !.pc = "done", !.etas = o.value])

NextShared ==
    \E r \in Requests :
        \/ SharedGenerate(r)
        \/ SharedLand(r)
        \/ SharedRestricted(r)
        \/ SharedShallow(r)
        \/ SharedHazard(r)
        \/ SharedTss(r)
        \/ SharedOptimize(r)
        \/ SharedEta(r)

SpecShared == InitShared /\ [][NextShared]_vars

\* ------------------------------------------------------------ direct calls
\* One call of one function on a constructed calculator, or of a function of
\* the navigation module, with arguments from the sets below.
\* vessel_type codes: absent, 0 ("Not available"), the codes the squat rule
\* names, two other codes of VESSEL_TYPES, and a code VESSEL_TYPES does not have
TypeCodes == { None, Some(0), Some(40), Some(60), Some(62), Some(64), Some(30), Some(66),
               Some(99) }

\* drafts in 1e-5 m: absent, 0, 6.0, 10.5
Drafts == { None, Some(0), Some(600000), Some(DefaultDraft) }

\* vessel arguments: no vessel, or a VesselData
Vessels == { None } \cup { Some(VesselData(t, d)) : t \in TypeCodes, d \in Drafts }

\* speeds in tenths of a knot, with a negative one
Speeds10 == { -50, 0, 120, (MaxSpeed10 + MinSpeed10) \div 2, MaxSpeed10 }

\* UKC minima in 1e-5 m
Ukcs == { 0, UkcDefault, 200000 }

\* a calculator constructed over one of the chart directories, nothing called
InitCalls ==
    /\ shapely \in BOOLEAN
    /\ cfg \in { DefaultSettings, [DefaultSettings EXCEPT !.tss_enforcement = "prefer"] }
    /\ \E f0 \in { OkFiles } \cup
                { [OkFiles EXCEPT ![f] = st] :
                     f \in {"coast", "depth"}, st \in {"missing", "bad"} } :
          /\ (shapely \/ f0 = OkFiles)
          /\ LET l == LoadCharts(f0, None, MinOffingDeg)
             IN  IF shapely THEN store = l.store /\ fs = l.files /\ cache_geo = l.cache
                 ELSE store = EmptyStore /\ fs = f0 /\ cache_geo = None
    /\ pc = "ready"
    /\ req = NoRequest
    /\ seed = << >>
    /\ wps = << >>
    /\ passLog = << >>
    /\ route = None
    /\ call = None
    /\ result = None
    /\ jobs = << >>

\* the call fn(args) is made and returns or raises res
Called(fn, args, res) ==
    /\ call' = Some([fn |-> fn, args |-> args])
    /\ result' = Some(res)
    /\ UNCHANGED << calcVars, pc, req, seed, wps, passLog, route, jobs >>

\* _required_depth_m(vessel, speed_knots, ukc_m)
RequiredDepthCall ==
    \E vessel \in Vessels, speed10 \in Speeds10, ukc \in Ukcs :
        /\ call = None
        /\ Called("_required_depth_m", [vessel |-> vessel, speed |-> speed10, ukc |-> ukc],
               RequiredDepth(vessel, speed10, ukc))

\* _estimate_squat_m(vessel, speed_knots)
EstimateSquatCall ==
    \E vessel \in Vessels, speed10 \in Speeds10 :
        /\ call = None
        /\ Called("_estimate_squat_m", [vessel |-> vessel, speed |-> speed10],
               EstimateSquat(vessel, speed10))

\* positions for the depth and land queries: in the 10-20 m cell, in the
\* 2-5 m cell, in the cell without DRVAL2, outside every cell, on the edge
\* between two cells, inside the land polygon, 5 and 2 miles off the coast
QueryPoints ==
    { Sea, << 7940, 3000 >>, North, LaneW, << 5600, 3000 >>, Harbor, BandPt,
      << 12000, 3000 >> }

ShallowVessels ==
    { None, Some(VesselData(Some(64), Some(DefaultDraft))),
      Some(VesselData(Some(60), Some(600000))), Some(VesselData(Some(0), Some(0))) }

\* _is_over_shallow_depth(p, vessel, speed_knots, ukc_m)
IsOverShallowCall ==
    \E p \in QueryPoints, vessel \in ShallowVessels, speed10 \in {0, 120} :
        /\ call = None
        /\ Called("_is_over_shallow_depth",
               [p |-> p, vessel |-> vessel, speed |-> speed10, ukc |-> UkcDefault],
               IsOverShallowDepth(store, shapely, p, vessel, speed10, UkcDefault))

\* _get_min_depth_at_point(p)
MinDepthCall ==
    \E p \in QueryPoints :
        /\ call = None
        /\ Called("_get_min_depth_at_point", [p |-> p], GetMinDepthAtPoint(store, shapely, p))

\* _point_in_land_buffer(p), which avoid_land_waypoints calls only with a
\* land union loaded
LandQueryCall ==
    /\ shapely /\ store.land_union # None
    /\ \E p \in QueryPoints :
          /\ call = None
          /\ Called("_point_in_land_buffer", [p |-> p], PointInLandBuffer(store, p))

\* avoid_land_waypoints on a list of one waypoint
AvoidLandCall ==
    \E p \in QueryPoints, sailed \in BOOLEAN :
        /\ call = None
        /\ LET wp == Waypoint(p[2], p[1], << "WP1" >>)
               waypoints == << IF sailed
                               THEN [wp EXCEPT !.speed_knots = Some(120),
                                               !.course_deg = Some(90),
                                               !.distance_to_next_nm = Some(5000),
                                               !.estimated_time = Some(3600),
                                               !.actual_time = Some(3700)]
                               ELSE wp >>
           IN  Called("avoid_land_waypoints", [waypoints |-> waypoints],
                   AvoidLandWaypoints(store, shapely, waypoints))

\* the Waypoint objects a caller holds, each with the distance_to_next_nm it
\* held before the call
ObjectPoint(o) == CASE o = "a" -> Sea [] o = "b" -> Harbor [] OTHER -> North

HeapWith(stale) ==
    [o \in { "a", "b", "c" } |->
        [Waypoint(ObjectPoint(o)[2], ObjectPoint(o)[1], << o >>)
            EXCEPT !.distance_to_next_nm = stale]]

\* optimize_route(waypoints, constraints, objective) on lists of distinct
\* objects and on lists in which one object occurs more than once
OptimizeRouteCall ==
    \E refs \in { << "a", "b" >>, << "a", "b", "c" >>, << "c", "a", "b" >>,
                  << "a", "a" >>, << "a", "b", "a" >>, << "a", "b", "a", "c" >> },
       stale \in { None, Some(7) } :
        /\ call = None
        /\ Called("optimize_route", [refs |-> refs, stale |-> stale],
               OptimizeRouteObjects(HeapWith(stale), refs))

\* _interpolate_great_circle(lat1, lon1, lat2, lon2, fraction), the fraction
\* given as num/den
InterpolateCall ==
    \E p1 \in { Sea, Harbor }, p2 \in { Sea, Harbor },
       f \in { << 0, 1 >>, << 1, 2 >>, << 1, 1 >> } :
        /\ call = None
        /\ Called("_interpolate_great_circle",
               [p1 |-> p1, p2 |-> p2, num |-> f[1], den |-> f[2]],
               InterpolateGreatCircle(p1, p2, f[1], f[2]))

\* MaritimeNavigation.calculate_eta(current_pos, target_pos, speed_knots)
NavEtaCall ==
    \E current_pos \in { Sea, Harbor }, target_pos \in { Sea, Harbor }, speed10 \in Speeds10 :
        /\ call = None
        /\ Called("MaritimeNavigation.calculate_eta",
                  [current_pos |-> current_pos, target_pos |-> target_pos, speed |-> speed10],
                  NavCalculateEta(current_pos, target_pos, speed10))

\* routes of one, two and three waypoints, after optimize_route
EtaRoutes ==
    { << Waypoint(Sea[2], Sea[1], << "WP1" >>) >>,
      OptimizeRouteOf(<< Waypoint(Sea[2], Sea[1], << "WP1" >>),
                         Waypoint(Harbor[2], Harbor[1], << "WP2" >>) >>).waypoints,
      OptimizeRouteOf(<< Waypoint(Sea[2], Sea[1], << "WP1" >>),
                         Waypoint(North[2], North[1], << "WP2" >>),
                         Waypoint(Harbor[2], Harbor[1], << "WP3" >>) >>).waypoints }

\* EnhancedSailingCalculator.calculate_eta(start_time, waypoints, speed_knots)
\* from time 0
CalcEtaCall ==
    \E waypoints \in EtaRoutes, speed10 \in Speeds10 :
        /\ call = None
        /\ Called("calculate_eta", [waypoints |-> waypoints, speed |-> speed10],
                  CalculateEta(0, waypoints, speed10))

\* RouteConstraints with the default speeds, with zero speeds, with negative
\* speeds and with speeds that average to zero
\* _calculate_route_metrics(waypoints, constraints, objective)
RouteMetricsCall ==
    \E waypoints \in EtaRoutes,
       constraints \in
          { ConstraintsForDepth,
            [ConstraintsForDepth EXCEPT !.max_speed_knots = 0, !.min_speed_knots = 0],
            [ConstraintsForDepth EXCEPT !.max_speed_knots = -50, !.min_speed_knots = -50],
            [ConstraintsForDepth EXCEPT !.max_speed_knots = 50, !.min_speed_knots = -50] },
       objective \in { "fuel_efficiency", "time_optimization", "safety_first", "balanced" } :
        /\ call = None
        /\ Called("_calculate_route_metrics",
                  [waypoints |-> waypoints, constraints |-> constraints,
                   objective |-> objective],
                  CalculateRouteMetrics(waypoints, constraints, objective))

\* course_made_good(start_pos, current_pos, target_pos), the current position
\* at the start, on the way, at the target and beyond it
CourseMadeGoodCall ==
    \E start_pos \in { Sea, Harbor },
       current_pos \in { Sea, BandPt, Harbor, << 22000, 3000 >> },
       target_pos \in { Sea, Harbor } :
        /\ call = None
        /\ Called("course_made_good",
                  [start_pos |-> start_pos, current_pos |-> current_pos,
                   target_pos |-> target_pos],
                  CourseMadeGood(start_pos, current_pos, target_pos))

\* Position(lat, lon) in whole degrees, on and beyond the limits
PositionCall ==
    \E lat \in { -91, -90, 0, 38, 90, 91 },
       lon \in { -540, -181, -180, -179, -122, 0, 179, 180, 181, 360, 540 } :
        /\ call = None
        /\ Called("Position", [lat |-> lat, lon |-> lon], NewPosition(lat, lon))

\* cross_track_error(current_pos, route_start, route_end) for an eastbound, a
\* northbound and an empty route, the current position on the track and on
\* either side of it
CrossTrackCall ==
    \E route_end \in { Harbor, << 1000, 9000 >>, Sea },
       current_pos \in { BandPt, North, LaneW, << 9000, 1000 >>, << 1000, 5000 >> } :
        /\ call = None
        /\ Called("cross_track_error",
                  [current_pos |-> current_pos, route_start |-> Sea, route_end |-> route_end],
                  CrossTrackError(current_pos, Sea, route_end))

\* _prefer_tss_corridors(waypoints): along the eastbound lane, against it,
\* across both lanes, far from every lane, a single waypoint, and three
\* waypoints leaving the lane
TssCall ==
    \E pts \in { << LaneW, LaneE >>, << LaneE, LaneW >>,
                 << << 5000, -7000 >>, << 5000, -11000 >> >>,
                 << Sea, Harbor >>, << Sea >>, << LaneW, LaneE, Harbor >> } :
        /\ call = None
        /\ LET waypoints == [i \in 1..Len(pts) |-> Waypoint(pts[i][2], pts[i][1], << WPName(i) >>)]
           IN  Called("_prefer_tss_corridors", [waypoints |-> waypoints],
                      PreferTssCorridors(store, shapely, cfg, waypoints))

\* _calculate_safety_depth_m(vessel, speed_knots, ukc_m, tide_height_m) and
\* _get_safety_contour_m of its result
SafetyDepthCall ==
    \E vessel \in ShallowVessels, speed10 \in { 0, 120 }, ukc \in { 0, UkcDefault },
       tide_height \in { 0, 50000 } :
        /\ call = None
        /\ LET shallow_contour == CalculateSafetyDepth(vessel, speed10, ukc, tide_height)
           IN  Called("_calculate_safety_depth_m",
                      [vessel |-> vessel, speed |-> speed10, ukc |-> ukc,
                       tide_height |-> tide_height],
                      [shallow_contour |-> shallow_contour,
                       safety_contour |-> GetSafetyContour(shallow_contour)])

\* _move_away_from_shallow(p, vessel, speed_knots, ukc_m, buffer_deg) on the
\* loaded depth layer, or on a depth layer of strips 0.1 nm wide that deepen
\* eastwards by 10 m each; the result keeps the rounds of the search
MoveAwayCall ==
    \E p \in { << 100, 0 >>, << 5650, 5850 >>, << 5650, 50 >>, << 7000, 3000 >> },
       vessel \in { None, Some(VesselData(Some(64), Some(DefaultDraft))) },
       strips \in BOOLEAN :
        /\ call = None
        /\ LET areas == [k \in 1..(MaxAttempts + 2) |->
                           [geometry |-> Rect(k * StepSizeDeg - 50, k * StepSizeDeg + 50,
                                              -1000, 1000),
                            properties |-> [DRVAL1 |-> None,
                                            DRVAL2 |-> Some(k * 1000000)]]]
               st == IF strips
                     THEN [store EXCEPT !.depth_areas = areas,
                                        !.depth_tree = BuildTree(areas)]
                     ELSE store
               best_depth == GetMinDepthAtPoint(st, shapely, p)
           IN  Called("_move_away_from_shallow",
                      [p |-> p, vessel |-> vessel, speed |-> 120, ukc |-> UkcDefault,
                       strips |-> strips, best_depth |-> best_depth],
                      [best |-> MoveAwayFromShallow(st, shapely, p, vessel, 120, UkcDefault),
                       rounds |-> IF best_depth = None THEN << >>
                                  ELSE ShallowSearch(st, shapely, vessel, 120, UkcDefault,
                                                     0, p, best_depth[1])])

NextCalls ==
    \/ RequiredDepthCall
    \/ EstimateSquatCall
    \/ IsOverShallowCall
    \/ MinDepthCall
    \/ LandQueryCall
    \/ AvoidLandCall
    \/ OptimizeRouteCall
    \/ InterpolateCall
    \/ NavEtaCall
    \/ CalcEtaCall
    \/ RouteMetricsCall
    \/ CourseMadeGoodCall
    \/ PositionCall
    \/ CrossTrackCall
    \/ TssCall
    \/ SafetyDepthCall
    \/ MoveAwayCall

SpecCalls == InitCalls /\ [][NextCalls]_vars

\* ------------------------------------------------ successive process starts
\* The charts directory outlives the process.  A later start builds a new
\* calculator from the settings of that start and the files then on disk,
\* the cached land buffer of an earlier start among them.
Restart ==
    /\ pc = "ready"
    /\ \E offing \in {MinOffingNm10, MinOffingNm10 + 20} :
          cfg' = [cfg EXCEPT !.min_offing_nm10 = offing]
    /\ store' = EmptyStore
    /\ pc' = "new"
    /\ UNCHANGED << shapely, fs, cache_geo, req, seed, wps, passLog, route,
                 call, result, jobs >>

NextStarts ==
    \/ Construct
    \/ Restart

SpecStarts == Init /\ [][NextStarts]_vars

\* ================================================================ properties
\* the recorded runs of one pass
RunsOf(name) == {k \in 1..Len(passLog) : passLog[k].pass = name}

\* a geometric land layer is in use
LandLoaded == shapely /\ store.land_union # None

\* two waypoint lists agree in length and, per waypoint, in position and name
SamePositionsAndNames(a, b) ==
    /\ Len(a) = Len(b)
    /\ \A i \in 1..Len(a) : PointOf(a[i]) = PointOf(b[i]) /\ a[i].name = b[i].name

\* C1: after the land pass no output waypoint lies within the buffered land
\* union held by the chart store, also when the input waypoint lies strictly
\* inside a land polygon.
C1_NoWaypointInLandUnion ==
    \A k \in RunsOf("land") :
        LandLoaded =>
            \A i \in 1..Len(passLog[k].output) :
                ~Within(PointOf(passLog[k].output[i]), store.land_union[1])

\* C2: the land pass is idempotent: applied to one of its own outputs, with the
\* geometric layer or with the hard-coded boxes, on the first run or on the
\* caller's re-run, it changes neither a position nor a name.
C2_LandPassIdempotent ==
    \A k \in RunsOf("land") :
        SamePositionsAndNames(AvoidLandWaypoints(store, shapely, passLog[k].output),
                              passLog[k].output)

\* the depth test of the shallow pass on an output waypoint
StillShallow(wp) ==
    IsOverShallowDepth(store, shapely, PointOf(wp), DefaultVesselForDepth,
                       SegmentSpeed(wp, ConstraintsForDepth), ConstraintsForDepth.ukc_m)

\* what the shallow pass writes on a waypoint besides its position: the last
\* part of the name (a Waypoint has no field for an advisory)
Marking(wp) == wp.name[Len(wp.name)]

\* C3: after the shallow pass every output waypoint has enough water or is
\* flagged as advisory-non-compliant: a waypoint that is still shallow carries
\* a marking that no relocated waypoint with enough water carries.
C3_ShallowCompliantOrFlagged ==
    \A k \in RunsOf("shallow") :
        LET in == passLog[k].input
            out == passLog[k].output
        IN  \A i \in 1..Len(out) :
                StillShallow(out[i]) =>
                    /\ out[i] # in[i]
                    /\ \A j \in 1..Len(out) :
                          (out[j] # in[j] /\ ~StillShallow(out[j]))
                              => Marking(out[i]) # Marking(out[j])


\* the angular difference of two bearings, in 0..180
AngDiff(b1, b2) == LET d == (b1 - b2) % 360 IN Min2(d, 360 - d)

IsInserted(wp) == wp.name = << "TSS WP" >>

\* the waypoints of a TSS output that are not inserted ones, in order
Originals(out) == SelectSeq(out, LAMBDA w : ~IsInserted(w))

\* position in the TSS output of the i-th waypoint of its input
IndexOfOriginal(out, i) ==
    CHOOSE j \in 1..Len(out) :
        /\ ~IsInserted(out[j])
        /\ Cardinality({m \in 1..j : ~IsInserted(out[m])}) = i

\* the waypoints the TSS pass put between input waypoints i and i + 1
InsertedBetween(out, i) ==
    {out[j] : j \in (IndexOfOriginal(out, i) + 1)..(IndexOfOriginal(out, i + 1) - 1)}

\* wp is the projection of the middle of the segment a-b on corridor c
ProjectedOn(c, a, b, wp) ==
    PointOf(wp) = ProjectOnLine(c.line, MidPoint(PointOf(a), PointOf(b)))

PassOrder == << "land", "restricted", "shallow", "hazard", "tss" >>

\* C5: generate_waypoints runs land, restricted, shallow, hazard, TSS in that
\* order, each once, the first on the interpolated list and each later one on
\* the list the pass before it returned; it returns the output of the last.
C5_PipelineOrder ==
    LET n == Min2(Len(passLog), Len(PassOrder))
    IN  /\ \A k \in 1..n : passLog[k].pass = PassOrder[k]
        /\ (n >= 1 => passLog[1].input = seed)
        /\ \A k \in 2..n : passLog[k].input = passLog[k - 1].output
        /\ (pc = "generated" =>
               Len(passLog) = Len(PassOrder) /\ wps = passLog[Len(PassOrder)].output)

\* generate_waypoints returned after a run in which the land pass and the
\* shallow pass both changed the list
C5_FullPipelineRan ==
    /\ pc = "generated"
    /\ Len(passLog) = Len(PassOrder)
    /\ passLog[1].output # passLog[1].input
    /\ passLog[3].output # passLog[3].input

\* b is a with one more part on its name (and possibly another position)
Relocation(a, b) ==
    /\ Len(b.name) = Len(a.name) + 1
    /\ SubSeq(b.name, 1, Len(a.name)) = a.name

\* C6: no pass removes or reorders waypoints: the four avoidance passes return
\* a list of the same length in which every waypoint is the input waypoint or
\* its relocation; only the TSS pass lengthens the list, and taking its
\* inserted waypoints out gives back its input.
C6_NoRemovalOrReorder ==
    \A k \in 1..Len(passLog) :
        LET in == passLog[k].input
            out == passLog[k].output
        IN  IF passLog[k].pass = "tss"
            THEN Originals(out) = in /\ Len(out) >= Len(in)
            ELSE /\ Len(out) = Len(in)
                 /\ \A i \in 1..Len(in) : out[i] = in[i] \/ Relocation(in[i], out[i])

\* the TSS pass lengthened a list in which an avoidance pass had relocated a
\* waypoint
C6_TssLengthened ==
    /\ \E k \in RunsOf("tss") : Len(passLog[k].output) > Len(passLog[k].input)
    /\ \E k \in 1..Len(passLog) :
          passLog[k].pass # "tss" /\ passLog[k].output # passLog[k].input


\* C7: in every Route built by generate_waypoints and optimize_route the first
\* waypoint is at the requested start (or the sea buoy it was snapped to) and
\* the last one at the requested end (or its sea buoy), whatever is loaded.
C7_EndpointsPreserved ==
    pc = "routed" =>
        LET w == route[1].waypoints
        IN  /\ PointOf(w[1]) \in {req.start, PointOf(seed[1])}
            /\ PointOf(w[Len(w)]) \in {req.end, PointOf(seed[Len(seed)])}

\* positions of the sea buoys the loader put in the store
BuoyPositions == {store.sea_buoys[i].geometry : i \in 1..Len(store.sea_buoys)}

NearestBuoys(p) ==
    {b \in BuoyPositions :
        \A o \in BuoyPositions : GreatCircleDistance(p, b) <= GreatCircleDistance(p, o)}

InPilotage(p) ==
    \E i \in 1..Len(store.pilotage_zones) : RectContains(store.pilotage_zones[i], p)

\* q is what snapping should make of the endpoint p
SnappedFrom(p, q) == IF InPilotage(p) THEN q \in NearestBuoys(p) ELSE q = p

\* the position at fraction num/den of the way from p1 to p2
Fraction(p1, p2, num, den) ==
    << p1[1] + ((p2[1] - p1[1]) * num) \div den,
       p1[2] + ((p2[2] - p1[2]) * num) \div den >>

\* the waypoints between the first and the last of l are at the fractions
\* i/(n + 1) of the way from the first to the last
Interpolated(l, n) ==
    /\ Len(l) = n + 2
    /\ \A i \in 1..n :
          PointOf(l[i + 1]) = Fraction(PointOf(l[1]), PointOf(l[n + 2]), i, n + 1)

\* C8: with snapping enabled and pilotage polygons and sea buoys loaded from
\* the chart files, an endpoint inside a pilotage polygon is replaced by the
\* nearest loaded sea buoy, and the intermediate waypoints are interpolated
\* between the snapped endpoints.
C8_SnapsToNearestBuoy ==
    ( /\ seed # << >>
      /\ ~cfg.optimize_inside_pilotage
      /\ shapely
      /\ store.pilotage_zones # << >>
      /\ store.sea_buoys # << >> )
    => /\ SnappedFrom(req.start, PointOf(seed[1]))
       /\ SnappedFrom(req.end, PointOf(seed[Len(seed)]))
       /\ Interpolated(seed, req.num_waypoints)

\* l has the names Departure, WP1..WPn, Destination
SeedNames(l, n) ==
    /\ Len(l) = n + 2
    /\ l[1].name = << "Departure" >>
    /\ l[n + 2].name = << "Destination" >>
    /\ \A i \in 1..n : l[i + 1].name = << WPName(i) >>

\* l starts and ends at the requested endpoints or at loaded sea buoys
SeedEndpoints(l) ==
    /\ PointOf(l[1]) \in {req.start} \cup BuoyPositions
    /\ PointOf(l[Len(l)]) \in {req.end} \cup BuoyPositions

\* C9 as stated: what generate_waypoints returns is the pure seed: count + 2
\* waypoints Departure, WP1..WPcount, Destination at the fractions i/(count+1)
\* between the endpoints, none relocated, renamed or inserted by a pass.
C9_GenerateReturnsPureSeed ==
    pc = "generated" =>
        /\ SeedNames(wps, req.num_waypoints)
        /\ SeedEndpoints(wps)
        /\ Interpolated(wps, req.num_waypoints)

\* C9 (amended): the list generate_waypoints builds before its passes has
\* count + 2 waypoints Departure, WP1..WPcount, Destination at the fractions
\* i/(count+1) between its endpoints; what generate_waypoints returns is the
\* output of the five passes on that list.
C9_SeedBeforePasses ==
    /\ seed # << >> =>
          /\ SeedNames(seed, req.num_waypoints)
          /\ SeedEndpoints(seed)
          /\ Interpolated(seed, req.num_waypoints)
    /\ pc = "generated" =>
          /\ passLog[1].input = seed
          /\ wps = passLog[Len(passLog)].output

\* generate_waypoints returned for a request with the largest count, and its
\* passes changed the seed
C9_SeedChangedByPasses ==
    /\ pc = "generated"
    /\ req.num_waypoints = MaxCount
    /\ wps # seed

\* the chart file each of the four feature passes depends on
LayerFile(pass) ==
    CASE pass = "restricted" -> "restricted"
      [] pass = "shallow" -> "depth"
      [] pass = "hazard" -> "hazards"
      [] pass = "tss" -> "tss"

\* the features the store holds for a chart file
LayerOf(f) ==
    CASE f = "restricted" -> store.restricted_areas
      [] f = "depth" -> store.depth_areas
      [] f = "hazards" -> store.wrecks_obstructions
      [] f = "tss" -> store.tss_corridors

FeatureLayers == {"restricted", "depth", "hazards", "tss"}

FallbackShifts == { << -OffshoreDistance, 0 >>, << 0, -OffshoreDistance >> }

AloneGenerated(rq) ==
    LET g == SeedWaypoints(store, shapely, cfg, rq.start, rq.end, rq.num_waypoints)
        l == AvoidLandWaypoints(store, shapely, g.wps)
        a == AvoidRestrictedAreasWaypoints(store, shapely, l)
        d == AvoidShallowDepthsWaypoints(store, shapely, a.wps, DefaultVesselForDepth,
                                         ConstraintsForDepth)
        h == AvoidPointHazardsWaypoints(store, shapely, d)
        t == PreferTssCorridors(store, shapely, cfg, h.wps)
    IN  t.wps

\* C11: once the charts are loaded, no step of any of the requests sharing
\* the calculator changes a layer or an index of the store (the store is
\* still what loading the chart files gives), and whatever the interleaving
\* each request has the waypoints, route and ETAs it would get alone.
C11_SharedStoreReadOnly ==
    /\ store = LoadCharts([fs EXCEPT !["cache"] = "missing"], None, MinOffingDeg).store
    /\ \A r \in Requests :
          LET j == jobs[r]
              alone == AloneGenerated(j.req)
          IN  /\ j.pc = "generated" => j.wps = alone
              /\ j.pc \in {"routed", "done"} =>
                    /\ j.route = Some(OptimizeRouteOf(alone))
                    /\ j.wps = OptimizeRouteOf(alone).waypoints
              /\ j.pc = "done" =>
                    j.etas = CalculateEta(0, OptimizeRouteOf(alone).waypoints,
                                          SharedSpeed10).value

\* a request that started while another one was running has finished, its
\* waypoints changed by the passes, and so has another request
C11_InterleavedRequestsDone ==
    \E r \in Requests, o \in Requests :
        /\ r # o
        /\ jobs[r].pc = "done" /\ jobs[r].overlap
        /\ jobs[o].pc = "done"
        /\ SamePositionsAndNames(jobs[r].wps, jobs[r].seed) = FALSE


\* the direct call made in this state was fn
CallIs(fn) == call # None /\ call[1].fn = fn

Args == call[1].args

\* the draft the vessel argument carries
GivenDraft(vessel) == vessel[1].draft[1]

\* the draft used for a vessel argument: the default for no vessel, an absent
\* draft or a draft of 0
EffectiveDraft(vessel) ==
    IF vessel = None THEN DefaultDraft
    ELSE IF vessel[1].draft = None \/ vessel[1].draft = Some(0) THEN DefaultDraft
    ELSE vessel[1].draft[1]

\* C12 as stated: for every vessel draft, every speed >= 0 and every UKC,
\* required_depth is the vessel's draft + max(UKC, squat), and the shallow
\* test compares the available depth with exactly that value.
C12_RequiredDepthEveryDraft ==
    /\ ( /\ CallIs("_required_depth_m")
         /\ Args.speed >= 0 /\ Args.vessel # None /\ Args.vessel[1].draft # None )
       => result[1] = GivenDraft(Args.vessel)
                      + Max2(Args.ukc, EstimateSquat(Args.vessel, Args.speed))
    /\ ( /\ CallIs("_is_over_shallow_depth")
         /\ Args.vessel # None /\ Args.vessel[1].draft # None )
       => LET available == GetMinDepthAtPoint(store, shapely, Args.p)
          IN  result[1] = ( /\ available # None
                            /\ available[1] < GivenDraft(Args.vessel)
                                   + Max2(Args.ukc, EstimateSquat(Args.vessel, Args.speed)) )

\* C12 (amended): for every speed >= 0 and every UKC, required_depth is the
\* draft + max(UKC, squat), where the draft is the vessel's when it is present
\* and not 0 and the default draft (10.5 m) otherwise; the shallow test
\* compares the available depth with exactly that value.
C12_RequiredDepthWithDefaultDraft ==
    /\ (CallIs("_required_depth_m") /\ Args.speed >= 0)
       => result[1] = EffectiveDraft(Args.vessel)
                      + Max2(Args.ukc, EstimateSquat(Args.vessel, Args.speed))
    /\ CallIs("_is_over_shallow_depth")
       => LET available == GetMinDepthAtPoint(store, shapely, Args.p)
          IN  result[1] = ( /\ available # None
                            /\ available[1] < EffectiveDraft(Args.vessel)
                                   + Max2(Args.ukc, EstimateSquat(Args.vessel, Args.speed)) )

\* the tanker of the example: type 64, draft 10.5 m, 12 knots, UKC 0.6 m, for
\* which _required_depth_m returned 11.94 m
C12_TankerRequires1194 ==
    /\ CallIs("_required_depth_m")
    /\ Args = [vessel |-> Some(VesselData(Some(64), Some(1050000))), speed |-> 120,
               ukc |-> 60000]
    /\ result = Some(1194000)

\* the keys of Settings.VESSEL_TYPES other than 0 ("Not available")
KnownTypes == { 20, 30, 31, 36, 37, 40, 50, 52, 60, 62, 64, 66 }

\* the coefficient of the squat rule, in tenths
RuleCoeff10(vessel) ==
    IF vessel = None THEN 7
    ELSE IF vessel[1].vessel_type = None THEN 7
    ELSE LET vt == vessel[1].vessel_type[1]
         IN  IF vt \in {62, 64} THEN 10
             ELSE IF vt \in {60, 40} THEN 6
             ELSE IF vt \in KnownTypes THEN 8
             ELSE 7

\* C13: squat = coefficient x speed^2 / 100 with coefficient 1.0 for codes 62
\* and 64, 0.6 for 60 and 40, 0.8 for any other known code and 0.7 for an
\* unknown or absent type; an unknown code never raises and gets 0.7.
C13_SquatCoefficients ==
    (CallIs("_estimate_squat_m") /\ Args.speed >= 0)
        => result[1] = RuleCoeff10(Args.vessel) * Args.speed * Args.speed


\* the loaded depth cells that cover p
CoveringCells(p) ==
    {i \in 1..Len(store.depth_areas) : RectContains(store.depth_areas[i].geometry, p)}

\* the shoal end of the depth range of loaded cell i
ShoalBound(i) == store.depth_areas[i].properties.DRVAL1

\* C14: the depth-at-point query returns the minimum, over the cells covering
\* the point, of the cell's shoal (minimum-depth) bound, and the sentinel depth
\* exactly when no cell covers the point; a point without depth data is never
\* classified as shallow.
C14_ShallowestCoveringCell ==
    /\ CallIs("_get_min_depth_at_point") =>
          LET cov == CoveringCells(Args.p)
          IN  /\ (cov = {}) <=> (result[1] = Some(NoDataDepth))
              /\ cov # {} =>
                    /\ result[1] # None
                    /\ \E i \in cov : ShoalBound(i) = result[1]
                    /\ \A i \in cov : ShoalBound(i) # None => result[1][1] <= ShoalBound(i)[1]
    /\ (CallIs("_is_over_shallow_depth") /\ CoveringCells(Args.p) = {})
          => result[1] = FALSE

\* within one minimum offing of the land mass of the coastline file
WithinOffingOfLand(p) == Within(p, Buffer(CoastGeom, MinOffingDeg))

\* C15: the land query is true exactly for the points within the land mass or
\* within one minimum-offing distance of it; the land pass never relocates a
\* point farther than that from land.
C15_LandQueryIsOffingBuffer ==
    /\ CallIs("_point_in_land_buffer") => result[1] = WithinOffingOfLand(Args.p)
    /\ ( /\ CallIs("avoid_land_waypoints")
         /\ LandLoaded
         /\ ~WithinOffingOfLand(PointOf(Args.waypoints[1])) )
       => result[1] = Args.waypoints


\* the list optimize_route returned, as the objects it was given
LegField(i) == result[1].waypoints[i].distance_to_next_nm

LegsConsistent ==
    LET w == result[1].waypoints
    IN  /\ \A i \in 1..(Len(w) - 1) :
              LegField(i) = Some(GreatCircleDistance(PointOf(w[i]), PointOf(w[i + 1])))
        /\ result[1].total_distance_nm =
              SumSeq([i \in 1..(Len(w) - 1) |-> LegField(i)[1]])

DistinctObjects(refs) ==
    \A i, j \in 1..Len(refs) : refs[i] = refs[j] => i = j

\* C16 as stated: after optimize_route on any list of two or more waypoints,
\* every waypoint but the last holds the great-circle distance to its
\* successor, whatever it held before, and the total is the sum of these.
C16_LegsConsistentAnyList ==
    CallIs("optimize_route") => LegsConsistent

\* C16 amended: the same, for lists in which no Waypoint object occurs twice.
C16_LegsConsistentDistinctObjects ==
    (CallIs("optimize_route") /\ DistinctObjects(Args.refs)) => LegsConsistent

\* a list of three distinct waypoints that held a stale distance, overwritten
C16_StaleDistanceOverwritten ==
    /\ CallIs("optimize_route")
    /\ Args.refs = << "a", "b", "c" >>
    /\ Args.stale = Some(7)
    /\ LegField(1) # Some(7)
    /\ LegField(2) # Some(7)
    /\ result[1].total_distance_nm > 0

\* C18: _interpolate_great_circle with p1 = p2 fails and returns no position,
\* for every fraction.
C18_ZeroArcRaises ==
    (CallIs("_interpolate_great_circle") /\ Args.p1 = Args.p2) => result[1].raised

\* a call on a zero-length arc, at the middle fraction, that failed
C18_ZeroArcCalled ==
    /\ CallIs("_interpolate_great_circle")
    /\ Args.p1 = Args.p2
    /\ Args.num = 1 /\ Args.den = 2
    /\ result[1].raised


\* C17: a speed <= 0 is always rejected with an error and never yields a
\* timestamp or a duration, in MaritimeNavigation.calculate_eta, in
\* EnhancedSailingCalculator.calculate_eta and in the route metrics computed
\* from the objective's transit speed.
C17_NonPositiveSpeedRejected ==
    /\ (CallIs("MaritimeNavigation.calculate_eta") /\ Args.speed <= 0)
          => result[1].raised
    /\ (CallIs("calculate_eta") /\ Args.speed <= 0) => result[1].raised
    /\ ( /\ CallIs("_calculate_route_metrics")
         /\ TransitSpeed100(Args.constraints, Args.objective) <= 0 )
       => result[1].raised


\* C19: course_made_good signals an error when the distance from start to
\* target is zero, and otherwise returns distance(start, current) /
\* distance(start, target) x 100 without clamping.
C19_UndefinedProgressRejected ==
    CallIs("course_made_good") =>
        LET total == ISqrt(Dist2(Args.start_pos, Args.target_pos))
            made == ISqrt(Dist2(Args.start_pos, Args.current_pos))
        IN  IF total = 0 THEN result[1].raised
            ELSE /\ ~result[1].raised
                 /\ result[1].progress_percent = (made * 10000) \div total

\* C20: a Position with a latitude outside [-90, 90] fails; the stored
\* longitude of an accepted one is congruent to the input modulo 360 and lies
\* in (-180, 180].
C20_LongitudeHalfOpenAbove ==
    CallIs("Position") =>
        IF Args.lat < -90 \/ Args.lat > 90 THEN result[1].raised
        ELSE /\ ~result[1].raised
             /\ (result[1].lon - Args.lon) % 360 = 0
             /\ -180 < result[1].lon /\ result[1].lon <= 180


\* the side of the track start -> end on which p lies: 1 right, -1 left, 0 on it
SideOfTrack(start, end, p) == -Sign(Cross(start, end, p))

\* C21: for a route of positive length cross_track_error returns a signed
\* error, positive to the right of the track, negative to the left and zero on
\* it, and bearing_to_route points from the current position toward the track.
C21_SignedCrossTrackError ==
    (CallIs("cross_track_error") /\ Args.route_start # Args.route_end) =>
        LET side == SideOfTrack(Args.route_start, Args.route_end, Args.current_pos)
            course == CalculateBearing(Args.route_start, Args.route_end)
            toward == IF side = 1 THEN (course + 270) % 360 ELSE (course + 90) % 360
        IN  /\ Sign(result[1].error_nm) = side
            /\ side # 0 => AngDiff(result[1].bearing_to_route, toward) < 90


\* the segment from input waypoint i to i + 1 passes within the width
\* attribute of corridor c of its centerline
NearCorridor(in, i, c) ==
    SegDistanceWithin(PointOf(in[i]), PointOf(in[i + 1]), c.line.a, c.line.b, WidthDeg(c))

\* the first loaded corridor near segment i, 0 when there is none
FirstNear(in, i) ==
    IF \E n \in 1..Len(store.tss_corridors) : NearCorridor(in, i, store.tss_corridors[n])
    THEN CHOOSE n \in 1..Len(store.tss_corridors) :
            /\ NearCorridor(in, i, store.tss_corridors[n])
            /\ \A m \in 1..(n - 1) : ~NearCorridor(in, i, store.tss_corridors[m])
    ELSE 0

\* C22 as stated: in "prefer" mode, for every pair and every corridor whose
\* centerline the pair's segment passes near, the projection of the segment
\* midpoint on that corridor's centerline is inserted between the pair,
\* whatever the bearings.
C22_PreferBiasOnEveryNearCorridor ==
    (CallIs("_prefer_tss_corridors") /\ cfg.tss_enforcement = "prefer") =>
        LET in == Args.waypoints
            out == result[1].wps
        IN  \A i \in 1..(Len(in) - 1), n \in 1..Len(store.tss_corridors) :
                NearCorridor(in, i, store.tss_corridors[n]) =>
                    \E w \in InsertedBetween(out, i) :
                        ProjectedOn(store.tss_corridors[n], in[i], in[i + 1], w)

\* C22 amended: in "prefer" mode, for every pair whose segment passes near a
\* corridor, the projection of the segment midpoint on the centerline of the
\* first such corridor in load order is inserted between the pair, whatever
\* the bearings.
C22_PreferBiasOnFirstNearCorridor ==
    (CallIs("_prefer_tss_corridors") /\ cfg.tss_enforcement = "prefer") =>
        LET in == Args.waypoints
            out == result[1].wps
        IN  \A i \in 1..(Len(in) - 1) :
                FirstNear(in, i) # 0 =>
                    \E w \in InsertedBetween(out, i) :
                        ProjectedOn(store.tss_corridors[FirstNear(in, i)], in[i], in[i + 1], w)

\* a "prefer" call whose segment runs against the corridor it is near, and
\* got the projected waypoint
C22_OpposedSegmentBiased ==
    /\ CallIs("_prefer_tss_corridors")
    /\ cfg.tss_enforcement = "prefer"
    /\ Len(Args.waypoints) = 2
    /\ FirstNear(Args.waypoints, 1) # 0
    /\ AngDiff(CalculateBearing(PointOf(Args.waypoints[1]), PointOf(Args.waypoints[2])),
               BearingAlongLine(store.tss_corridors[FirstNear(Args.waypoints, 1)].line)) > 120
    /\ Len(result[1].wps) = 3

\* the first loaded corridor that is near segment i and that the direction
\* check does not skip, 0 when there is none
FirstTaken(in, i) ==
    LET taken(n) ==
            /\ NearCorridor(in, i, store.tss_corridors[n])
            /\ ~( /\ cfg.tss_enforcement = "enforce"
                  /\ AngDiff(CalculateBearing(PointOf(in[i]), PointOf(in[i + 1])),
                             BearingAlongLine(store.tss_corridors[n].line)) > OpposedDeg )
    IN  IF \E n \in 1..Len(store.tss_corridors) : taken(n)
        THEN CHOOSE n \in 1..Len(store.tss_corridors) :
                taken(n) /\ \A m \in 1..(n - 1) : ~taken(m)
        ELSE 0

\* p lies on the centerline of corridor c
OnCenterline(c, p) == Cross(c.line.a, c.line.b, p) = 0 /\ OnSegment(c.line.a, c.line.b, p)

\* C29: the TSS pass keeps every input waypoint in place and inserts at most
\* one waypoint per consecutive pair, the projection on the first corridor in
\* load order that is near the segment and not skipped; for n >= 1 inputs the
\* output has between n and 2n - 1 waypoints, starts and ends with the first
\* and last input, and every inserted waypoint is named "TSS WP" and lies on a
\* corridor centerline.
C29_AtMostOneInsertedPerPair ==
    (CallIs("_prefer_tss_corridors") /\ Len(Args.waypoints) >= 1) =>
        LET in == Args.waypoints
            out == result[1].wps
        IN  /\ ~result[1].raised
            /\ Len(in) <= Len(out) /\ Len(out) <= 2 * Len(in) - 1
            /\ out[1] = in[1] /\ out[Len(out)] = in[Len(in)]
            /\ Originals(out) = in
            /\ \A i \in 1..(Len(in) - 1) :
                  LET from == IndexOfOriginal(out, i)
                      to == IndexOfOriginal(out, i + 1)
                  IN  IF FirstTaken(in, i) = 0 THEN to = from + 1
                      ELSE /\ to = from + 2
                           /\ ProjectedOn(store.tss_corridors[FirstTaken(in, i)],
                                          in[i], in[i + 1], out[from + 1])
            /\ \A j \in 1..Len(out) :
                  out[j] \notin { in[i] : i \in 1..Len(in) } =>
                      /\ out[j].name = << "TSS WP" >>
                      /\ \E n \in 1..Len(store.tss_corridors) :
                            OnCenterline(store.tss_corridors[n], PointOf(out[j]))

\* a call on three waypoints that got a waypoint inserted in both pairs
C29_BothPairsBiased ==
    /\ CallIs("_prefer_tss_corridors")
    /\ Len(Args.waypoints) = 3
    /\ Len(result[1].wps) = 5
    /\ IsInserted(result[1].wps[2]) /\ IsInserted(result[1].wps[4])


\* the squat required_depth uses for the vessel and speed: what it adds to the
\* draft when the UKC is 0
SquatOfRequiredDepth(vessel, speed10) ==
    RequiredDepth(vessel, speed10, 0) - EffectiveDraft(vessel)

\* C23: with the tide taken as zero the shallow contour is draft + UKC + squat
\* and the safety contour is the shallow contour + the configured margin; the
\* squat is the one required_depth uses for the same vessel and speed, also
\* when no vessel is given.
C23_ContoursUseRequiredDepthSquat ==
    (CallIs("_calculate_safety_depth_m") /\ Args.tide_height = 0) =>
        /\ result[1].shallow_contour =
              EffectiveDraft(Args.vessel) + Args.ukc
                 + SquatOfRequiredDepth(Args.vessel, Args.speed)
        /\ result[1].safety_contour = result[1].shallow_contour + SafetyDepthMargin


\* C24: after the restricted-area pass every waypoint that was inside a
\* restricted-area polygon lies strictly outside that polygon.
C24_RelocatedOutOfRestrictedArea ==
    \A k \in RunsOf("restricted") :
        LET in == passLog[k].input
            out == passLog[k].output
        IN  \A i \in 1..Len(in), n \in 1..Len(store.restricted_areas) :
                ( /\ shapely
                  /\ RectContains(store.restricted_areas[n].geometry, PointOf(in[i])) )
                => ~RectIntersects(store.restricted_areas[n].geometry, PointOf(out[i]))

\* the loaded hazards nearest to p, among those within the hazard buffer
NearestHazards(p) ==
    LET near == {n \in 1..Len(store.wrecks_obstructions) :
                    Dist2(p, store.wrecks_obstructions[n].geometry) < MinOffingDeg * MinOffingDeg}
    IN  {n \in near : \A m \in near :
            Dist2(p, store.wrecks_obstructions[n].geometry)
               <= Dist2(p, store.wrecks_obstructions[m].geometry)}

\* C25: after the point-hazard pass every waypoint that was within the hazard
\* buffer of a hazard lies strictly farther than the buffer from the nearest
\* such hazard, also when the waypoint was on the hazard itself.
C25_PushedBeyondHazardBuffer ==
    \A k \in RunsOf("hazard") :
        LET in == passLog[k].input
            out == passLog[k].output
        IN  \A i \in 1..Len(in) :
                shapely =>
                    \A n \in NearestHazards(PointOf(in[i])) :
                        Dist2(PointOf(out[i]), store.wrecks_obstructions[n].geometry)
                           > MinOffingDeg * MinOffingDeg


\* the spatial index the calculator holds for a layer file
TreeOf(f) ==
    CASE f = "restricted" -> store.restricted_tree
      [] f = "depth" -> store.depth_tree
      [] f = "hazards" -> store.hazards_tree

\* C26: a failure of one load step leaves every other layer loaded and
\* indexed: whenever maritime_data.json is readable, each layer whose file is
\* readable holds that file's features and has its spatial index.
C26_FailuresIsolatedPerLayer ==
    (pc # "new" /\ shapely /\ fs["mdata"] = "ok") =>
        \A f \in {"restricted", "depth", "hazards"} :
            fs[f] = "ok" =>
                /\ LayerOf(f) = FileContent(f)
                /\ TreeOf(f) = BuildTree(FileContent(f))

\* C27: after every start the land layer is the coastline buffered by the
\* minimum offing configured for that start, whatever an earlier start cached.
C27_LandIsCoastBufferedByConfiguredOffing ==
    (pc = "ready" /\ shapely /\ fs["coast"] = "ok") =>
        store.land_union = Some(Buffer(CoastGeom, cfg.min_offing_nm10 * 100))


\* C28: the shallow-water search runs at most max_attempts rounds of at most
\* eight probes; a round that accepts no direction is the last one, the search
\* otherwise goes on up to the cap, and every accepted move is to a position
\* whose covering depth is strictly greater than the best depth before it.
C28_ShallowSearchBounded ==
    CallIs("_move_away_from_shallow") =>
        LET rounds == result[1].rounds
            before(i) == IF i = 1 THEN Args.best_depth[1] ELSE rounds[i - 1].best_depth
        IN  /\ Len(rounds) <= MaxAttempts
            /\ \A i \in 1..Len(rounds) :
                  /\ rounds[i].probes \in 1..Len(Directions)
                  /\ ~rounds[i].found_deeper => i = Len(rounds)
                  /\ (rounds[i].found_deeper /\ i = Len(rounds)) => i = MaxAttempts
                  /\ IF rounds[i].found_deeper
                     THEN rounds[i].best_depth > before(i)
                     ELSE rounds[i].best_depth = before(i)
            /\ result[1].best = IF rounds = << >> THEN Args.p
                                ELSE rounds[Len(rounds)].best

\* a search stopped by the attempt cap: every one of its max_attempts rounds
\* accepted a move
C28_StoppedByAttemptCap ==
    /\ CallIs("_move_away_from_shallow")
    /\ Len(result[1].rounds) = MaxAttempts
    /\ \A i \in 1..MaxAttempts : result[1].rounds[i].found_deeper


\* C30: a waypoint that the land pass relocates differs from the waypoint it
\* replaces in position and name only: speed_knots, course_deg,
\* distance_to_next_nm, estimated_time and actual_time are the original's.
C30_RelocationKeepsOtherFields ==
    CallIs("avoid_land_waypoints") =>
        \A i \in 1..Len(Args.waypoints) :
            LET a == Args.waypoints[i]
                b == result[1][i]
            IN  b # a =>
                    /\ b.speed_knots = a.speed_knots
                    /\ b.course_deg = a.course_deg
                    /\ b.distance_to_next_nm = a.distance_to_next_nm
                    /\ b.estimated_time = a.estimated_time
                    /\ b.actual_time = a.actual_time

=============================================================================
